---------------------------- MODULE Spec2Model ----------------------------
(***************************************************************************)
(* kairo: the note index (src-tauri/src/db/indexer.rs, schema.rs, mod.rs), *)
(* the note commands that drive it (src-tauri/src/commands/notes.rs) and   *)
(* the dataview query compiler (src-tauri/src/db/dataview.rs).             *)
(*                                                                         *)
(* Representation.  A note's text is a sequence of lines; a line is kept   *)
(* as the lexemes the extractor's patterns match on it (a heading, a code  *)
(* fence, a front-matter key, #tags, [[links]], ^anchors, entities), so    *)
(* the extractors below run the algorithms of indexer.rs over the lexemes. *)
(* A vault-relative path is a record of its directory, file stem and       *)
(* extension.  A table without a declared key (tags, entities,             *)
(* code_blocks: their only key is the AUTOINCREMENT id) is a bag of rows;  *)
(* a table with a declared key is a set of rows.                           *)
(***************************************************************************)
EXTENDS Integers, Sequences, FiniteSets, Bags, TLC

(***************************************************************************)
(* Lexemes and lines                                                       *)
(***************************************************************************)
Tok(k, v)        == [k |-> k, ns |-> "", v |-> v, b |-> ""]
Wiki(target)     == [k |-> "wiki", ns |-> "", v |-> target, b |-> ""]
CardLink(b, t)   == [k |-> "wiki", ns |-> "card:", v |-> t, b |-> b]

Delim            == [k |-> "delim", v |-> "", xs |-> <<>>]
YList(key, its)  == [k |-> "ylist", v |-> key,
                     xs |-> [i \in 1..Len(its) |-> Tok("item", its[i])]]
YScalar(key, s)  == [k |-> "yscalar", v |-> key, xs |-> <<Tok("item", s)>>]
YKey(key)        == [k |-> "ykey", v |-> key, xs |-> <<>>]
YDash(s)         == [k |-> "ydash", v |-> "", xs |-> <<Tok("item", s)>>]
H1(t)            == [k |-> "h1", v |-> t, xs |-> <<>>]
Fence(lang)      == [k |-> "fence", v |-> lang, xs |-> <<>>]
Body(toks)       == [k |-> "body", v |-> "", xs |-> toks]

(***************************************************************************)
(* The texts a note file may hold.  Text 1 carries every kind of fact,     *)
(* with repeats (a tag twice in the front-matter list and again inline, a  *)
(* link twice, an anchor twice, an alias under both keys); text 2 is an    *)
(* edit of it that drops the front-matter, a tag, the links and the        *)
(* anchors and leaves a fence open; text 3 is a short note with front-     *)
(* matter in the multi-line list form.                                     *)
(***************************************************************************)
Text1 ==
  << Delim,
     YList("tags", <<"red", "red">>),
     YList("aliases", <<"Alpha", "Alpha">>),
     YScalar("alias", "Beta"),
     YScalar("archived", "true"),
     Delim,
     H1("Home"),
     Body(<<Tok("word", "see"), Wiki("b"), Wiki("b"),
            Tok("hash", "red"), Tok("hash", "blue")>>),
     Fence("rust"),
     Body(<<Tok("word", "let")>>),
     Fence(""),
     Body(<<Tok("word", "first"), Tok("anchor", "b1")>>),
     Body(<<Tok("ip", "10.0.0.1"), CardLink("", "fix"), Tok("mention", "bob")>>),
     Body(<<Tok("word", "second"), Tok("anchor", "b1")>>) >>

Text2 ==
  << H1("Home"),
     Body(<<Tok("hash", "blue"), Tok("md", "notes/a.md"), Tok("cve", "CVE-2024-0001")>>),
     Fence(""),
     Body(<<Tok("word", "code")>>) >>

Text3 ==
  << Delim,
     YKey("tags"),
     YDash("green"),
     YScalar("status", "done"),
     Delim,
     Body(<<Tok("word", "hello"), Wiki("Home"), CardLink("Board", "Fix")>>) >>

(* Text 4 names the note titled Home in its prose and links to it by its   *)
(* alias; text 5 is a note titled Home with no link at all.                *)
Text4 ==
  << Body(<<Tok("word", "Home"), Wiki("Alpha")>>) >>

Text5 ==
  << H1("Home"),
     Body(<<Tok("word", "plain")>>) >>

Texts == <<Text1, Text2, Text3, Text4, Text5>>
TextIds == 1..Len(Texts)

(* The texts the editor writes.                                            *)
EditTexts == {1, 2, 3}

(* The texts the files of a vault under dataview queries hold.             *)
DvTexts == {1, 2, 3}

(***************************************************************************)
(* Paths                                                                   *)
(***************************************************************************)
PathA == [dir |-> <<"notes">>, stem |-> "a", ext |-> "md"]
PathB == [dir |-> <<"notes">>, stem |-> "b", ext |-> "md"]
PathC == [dir |-> <<"inbox">>, stem |-> "c", ext |-> "md"]
Paths == {PathA, PathB, PathC}

(* A note file directly under the vault root, written by write_note        *)
(* (notes.rs:9-60 validate_vault_path accepts any path inside the vault).  *)
PathRoot == [dir |-> <<>>, stem |-> "r", ext |-> "md"]

(* indexer.rs:317 generate_note_id: the first 8 bytes of SHA-256 of the     *)
(* path, in hex.  Distinct paths of the model get distinct ids.            *)
generate_note_id(path) == <<"sha256/8", path>>

(* indexer.rs:324 hash_content: the first 16 bytes of SHA-256 of the text. *)
hash_content(content) == <<"sha256/16", content>>

(* SQL LOWER() / str::to_lowercase on the strings of the model.            *)
Lower(s) ==
  CASE s = "Fix"   -> "fix"
    [] s = "Board" -> "board"
    [] s = "Home"  -> "home"
    [] s = "Alpha" -> "alpha"
    [] s = "Beta"  -> "beta"
    [] OTHER       -> s

(***************************************************************************)
(* Extractors (indexer.rs:331-762)                                         *)
(***************************************************************************)
RECURSIVE FirstH1(_, _)
FirstH1(lines, i) ==
  IF i > Len(lines) THEN 0
  ELSE IF lines[i].k = "h1" THEN i ELSE FirstH1(lines, i + 1)

extract_title(lines, path) ==
  LET i == FirstH1(lines, 1)
  IN  IF i > 0 THEN lines[i].v ELSE path.stem

JStr(s)  == [arr |-> FALSE, xs |-> <<s>>]
JArr(xs) == [arr |-> TRUE, xs |-> xs]
Put(m, key, val) ==
  [x \in DOMAIN m \cup {key} |-> IF x = key THEN val ELSE m[x]]
EmptyMap == [x \in {} |-> JStr("")]

(* The look-ahead of serde_yaml_to_json for "key:" with nothing after it:  *)
(* dash items are collected until the next root-level line.                *)
RECURSIVE YamlItems(_, _, _)
YamlItems(lines, i, items) ==
  IF i > Len(lines) THEN [next |-> i, items |-> items]
  ELSE IF lines[i].k = "ydash"
         THEN YamlItems(lines, i + 1,
                        IF lines[i].xs[1].v = "" THEN items
                        ELSE Append(items, lines[i].xs[1].v))
       ELSE IF lines[i].k # "blank" THEN [next |-> i, items |-> items]
       ELSE YamlItems(lines, i + 1, items)

RECURSIVE serde_yaml_to_json(_, _, _)
serde_yaml_to_json(lines, i, map) ==
  IF i > Len(lines) THEN map
  ELSE LET l == lines[i] IN
    CASE l.k = "ylist" ->
           serde_yaml_to_json(lines, i + 1,
             Put(map, l.v, JArr(SelectSeq([j \in 1..Len(l.xs) |-> l.xs[j].v],
                                          LAMBDA s: s # ""))))
      [] l.k = "ykey" ->
           LET r == YamlItems(lines, i + 1, <<>>)
           IN  serde_yaml_to_json(lines, r.next,
                 Put(map, l.v, IF r.items # <<>> THEN JArr(r.items) ELSE JStr("")))
      [] l.k = "yscalar" ->
           serde_yaml_to_json(lines, i + 1, Put(map, l.v, JStr(l.xs[1].v)))
      [] OTHER -> serde_yaml_to_json(lines, i + 1, map)

RECURSIVE NextDelim(_, _)
NextDelim(lines, i) ==
  IF i > Len(lines) THEN 0
  ELSE IF lines[i].k = "delim" THEN i ELSE NextDelim(lines, i + 1)

NoFrontmatter == [some |-> FALSE, map |-> EmptyMap]

extract_frontmatter(lines) ==
  IF Len(lines) > 0 /\ lines[1].k = "delim"
  THEN LET j == NextDelim(lines, 2)
       IN  IF j > 0
           THEN [some |-> TRUE,
                 map |-> serde_yaml_to_json(SubSeq(lines, 2, j - 1), 1, EmptyMap)]
           ELSE NoFrontmatter
  ELSE NoFrontmatter

extract_archived(fm) ==
  /\ fm.some
  /\ "archived" \in DOMAIN fm.map
  /\ ~fm.map["archived"].arr
  /\ fm.map["archived"].xs[1] = "true"

(* All lexemes of the text with their line numbers, in text order.         *)
RECURSIVE Lexemes(_, _)
Lexemes(lines, i) ==
  IF i > Len(lines) THEN <<>>
  ELSE [j \in 1..Len(lines[i].xs) |-> [line |-> i, pos |-> j, tok |-> lines[i].xs[j]]]
       \o Lexemes(lines, i + 1)

InlineLexemes(lines) ==
  SelectSeq(Lexemes(lines, 1), LAMBDA x: lines[x.line].k = "body")

Contains(seq, x) == \E i \in 1..Len(seq) : seq[i] = x

RECURSIVE PushNew(_, _)
PushNew(acc, xs) ==
  IF xs = <<>> THEN acc
  ELSE PushNew(IF Contains(acc, Head(xs)) THEN acc ELSE Append(acc, Head(xs)), Tail(xs))

Values(lexs) == [i \in 1..Len(lexs) |-> lexs[i].tok.v]

FmTagsArray(fm) ==
  IF fm.some /\ "tags" \in DOMAIN fm.map /\ fm.map["tags"].arr
  THEN fm.map["tags"].xs ELSE <<>>

extract_tags(lines, fm) ==
  PushNew(FmTagsArray(fm),
          Values(SelectSeq(InlineLexemes(lines), LAMBDA x: x.tok.k = "hash")))

EntityTypes == <<"ip", "domain", "cve", "username", "mention">>

extract_entities(lines) ==
  LET ents == SelectSeq(InlineLexemes(lines),
                        LAMBDA x: Contains(EntityTypes, x.tok.k))
  IN  [i \in 1..Len(ents) |->
         [entity_type |-> ents[i].tok.k, value |-> ents[i].tok.v,
          context |-> ents[i].line, line_number |-> ents[i].line]]

(* A line with nothing on it.                                              *)
IsEmptyLine(line) == line.k = "body" /\ line.xs = <<>>

(* indexer.rs:605-608: a newline is pushed when current_content is not     *)
(* empty, then the line.  The content is the sequence of what was pushed:  *)
(* a line's text is named by the line's number, a newline by 0, and an     *)
(* empty line pushes no text.                                              *)
PushLine(cur, lines, i) ==
  (IF cur # <<>> THEN Append(cur, 0) ELSE cur)
  \o (IF IsEmptyLine(lines[i]) THEN <<>> ELSE <<i>>)

RECURSIVE ScanFences(_, _, _, _, _, _)
ScanFences(lines, i, in_block, lang, start, acc) ==
  IF i > Len(lines) THEN acc.blocks
  ELSE IF lines[i].k = "fence"
       THEN IF in_block
            THEN ScanFences(lines, i + 1, FALSE, "", start,
                   [blocks |-> Append(acc.blocks,
                                 [language |-> lang, content |-> acc.cur,
                                  line_start |-> start, line_end |-> i]),
                    cur |-> <<>>])
            ELSE ScanFences(lines, i + 1, TRUE, lines[i].v, i, acc)
       ELSE IF in_block
            THEN ScanFences(lines, i + 1, in_block, lang, start,
                   [acc EXCEPT !.cur = PushLine(@, lines, i)])
            ELSE ScanFences(lines, i + 1, in_block, lang, start, acc)

extract_code_blocks(lines) ==
  ScanFences(lines, 1, FALSE, "", 0, [blocks |-> <<>>, cur |-> <<>>])

(* content.find(&cap[0]): the context window is taken around the FIRST     *)
(* occurrence of the matched text, named here by its position.             *)
FirstOccurrence(lines, tok) ==
  LET all == Lexemes(lines, 1)
      i   == CHOOSE i \in 1..Len(all) :
               all[i].tok = tok /\ \A j \in 1..(i - 1) : all[j].tok # tok
  IN  <<all[i].line, all[i].pos>>

extract_links(lines) ==
  LET lexs  == InlineLexemes(lines)
      wikis == SelectSeq(lexs, LAMBDA x: x.tok.k = "wiki" /\ x.tok.ns # "card:")
      mds   == SelectSeq(lexs, LAMBDA x: x.tok.k = "md")
      both  == wikis \o mds
  IN  [i \in 1..Len(both) |->
         [target_path |-> both[i].tok.v,
          context |-> FirstOccurrence(lines, both[i].tok)]]

extract_card_links(lines) ==
  LET cards == SelectSeq(InlineLexemes(lines),
                         LAMBDA x: x.tok.k = "wiki" /\ x.tok.ns = "card:")
  IN  [i \in 1..Len(cards) |->
         [card_title |-> cards[i].tok.v, board_name |-> cards[i].tok.b,
          context |-> FirstOccurrence(lines, cards[i].tok)]]

extract_blocks(lines) ==
  LET anchors == SelectSeq(InlineLexemes(lines),
                   LAMBDA x: /\ x.tok.k = "anchor"
                             /\ x.pos = Len(lines[x.line].xs)
                             /\ x.pos > 1)
  IN  [i \in 1..Len(anchors) |->
         [block_id |-> anchors[i].tok.v, content |-> anchors[i].line,
          line_number |-> anchors[i].line]]

FmStrings(fm, key) ==
  IF fm.some /\ key \in DOMAIN fm.map
  THEN SelectSeq(fm.map[key].xs, LAMBDA s: s # "")
  ELSE <<>>

extract_aliases(fm) ==
  PushNew(FmStrings(fm, "aliases"), FmStrings(fm, "alias"))


(***************************************************************************)
(* The index store (schema.rs).  One value holds every table.              *)
(***************************************************************************)
BagTables == {"entities", "tags", "code_blocks"}
SetTables == {"backlinks", "card_backlinks", "blocks", "aliases"}
DerivedTables == BagTables \cup SetTables

EmptyDb ==
  [notes |-> {}, entities |-> EmptyBag, tags |-> EmptyBag, code_blocks |-> EmptyBag,
   backlinks |-> {}, card_backlinks |-> {}, blocks |-> {}, aliases |-> {},
   kanban_cards |-> <<>>, notes_fts |-> {}]

(* schema.rs:25-51: notes_fts is an FTS5 table over the title and content  *)
(* of notes, one entry per rowid, maintained by three triggers.  The rowid *)
(* of a notes row is fixed when the row is inserted and kept by an update; *)
(* the model names it by the row's id.                                     *)
FtsEntry(n) == [rowid |-> n.id, title |-> n.title, content |-> n.content]

(* notes_ai: AFTER INSERT ON notes, INSERT INTO notes_fts(rowid, ...).     *)
notes_ai(fts, new) == fts \cup {FtsEntry(new)}

(* notes_ad: AFTER DELETE ON notes, the 'delete' command with the old      *)
(* values removes the entry that holds them.                               *)
notes_ad(fts, old) == fts \ {FtsEntry(old)}

(* notes_au: AFTER UPDATE ON notes, 'delete' of the old values and then    *)
(* the insert of the new ones.                                             *)
notes_au_insert_only(fts, old, new) == notes_ai(fts, new)
notes_au(fts, old, new) == notes_ai(notes_ad(fts, old), new)

(* The column that references notes(id).                                   *)
Owner(t, r) == IF t \in {"backlinks", "card_backlinks"} THEN r.source_id ELSE r.note_id

(* The declared key of a keyed table, as the columns compared on conflict. *)
KeyOf(t, r) ==
  CASE t = "backlinks"      -> <<r.source_id, r.target_path>>
    [] t = "card_backlinks" -> <<r.source_id, r.card_id>>
    [] t = "blocks"         -> <<r.note_id, r.block_id>>
    [] t = "aliases"        -> <<r.note_id, r.alias>>

(* schema.rs:56,70,91,101,168: the child tables declared                   *)
(* REFERENCES notes(id) ON DELETE CASCADE.                                 *)
CascadeTablesNoTags == {"entities", "backlinks", "code_blocks", "card_backlinks"}
CascadeTables == {"entities", "backlinks", "tags", "code_blocks", "card_backlinks"}

(* blocks and aliases are written by indexer.rs but their CREATE TABLE is  *)
(* not in schema.rs; they are taken from the data model: keyed per         *)
(* (note, anchor) and (note, alias), removed with the note.                *)
UndeclaredCascadeTables == {"blocks", "aliases"}

DeleteOwned(d, t, ids) ==
  IF t \in BagTables
  THEN [r \in {x \in DOMAIN d[t] : Owner(t, x) \notin ids} |-> d[t][r]]
  ELSE {r \in d[t] : Owner(t, r) \notin ids}

(* DELETE FROM notes WHERE <doomed>, with the cascade of the foreign keys. *)
DeleteNotes(d, doomed) ==
  LET ids == {n.id : n \in doomed}
      gone(t) == IF t \in CascadeTables \cup UndeclaredCascadeTables
                 THEN DeleteOwned(d, t, ids) ELSE d[t]
  IN  [notes |-> d.notes \ doomed,
       entities |-> gone("entities"), tags |-> gone("tags"),
       code_blocks |-> gone("code_blocks"), backlinks |-> gone("backlinks"),
       card_backlinks |-> gone("card_backlinks"), blocks |-> gone("blocks"),
       aliases |-> gone("aliases"), kanban_cards |-> d.kanban_cards,
       notes_fts |-> d.notes_fts \ {FtsEntry(n) : n \in doomed}]

(* indexer.rs:162-175: INSERT ... ON CONFLICT(path) DO UPDATE SET title,   *)
(* content, content_hash, modified_at, frontmatter, archived.              *)
UpdatedEveryColumn(n, r) == r
Updated(n, r) ==
  [n EXCEPT !.title = r.title, !.content = r.content,
            !.content_hash = r.content_hash, !.modified_at = r.modified_at,
            !.frontmatter = r.frontmatter, !.archived = r.archived]

UpsertNote(d, r) ==
  IF \E n \in d.notes : n.path = r.path
  THEN LET old == CHOOSE n \in d.notes : n.path = r.path
       IN  [ok |-> TRUE,
            db |-> [d EXCEPT !.notes = (@ \ {old}) \cup {Updated(old, r)},
                             !.notes_fts = notes_au(@, old, Updated(old, r))]]
  ELSE IF \E n \in d.notes : n.id = r.id
       THEN [ok |-> FALSE, db |-> d]
       ELSE [ok |-> TRUE, db |-> [d EXCEPT !.notes = @ \cup {r},
                                           !.notes_fts = notes_ai(@, r)]]

ParentExists(d, t, r) == \E n \in d.notes : n.id = Owner(t, r)

(* INSERT, INSERT OR IGNORE, INSERT OR REPLACE into a child table.         *)
InsertRow(d, t, r, onConflict) ==
  IF ~ParentExists(d, t, r) THEN [ok |-> FALSE, db |-> d]
  ELSE IF t \in BagTables
       THEN [ok |-> TRUE, db |-> [d EXCEPT ![t] = @ (+) SetToBag({r})]]
       ELSE LET clash == {x \in d[t] : KeyOf(t, x) = KeyOf(t, r)}
            IN  CASE clash = {} -> [ok |-> TRUE, db |-> [d EXCEPT ![t] = @ \cup {r}]]
                  [] clash # {} /\ onConflict = "ignore" -> [ok |-> TRUE, db |-> d]
                  [] clash # {} /\ onConflict = "replace" ->
                       [ok |-> TRUE, db |-> [d EXCEPT ![t] = (@ \ clash) \cup {r}]]
                  [] OTHER -> [ok |-> FALSE, db |-> d]

(* kanban boards are fixed in the model: board id -> name.                 *)
BoardIds == {"board1"}
BoardName(b) == "Board"

(* indexer.rs:229-246: SELECT id FROM kanban_cards WHERE LOWER(title) =    *)
(* LOWER(?1) [AND LOWER(board name) = LOWER(?2)] LIMIT 1: the first        *)
(* matching row of the table scan.                                         *)
FindCard(d, link) ==
  SelectSeq(d.kanban_cards,
            LAMBDA c: /\ Lower(c.title) = Lower(link.card_title)
                      /\ link.board_name # "" =>
                           Lower(BoardName(c.board_id)) = Lower(link.board_name))

(* One statement of a with_db closure.                                     *)
Exec(d, s) ==
  CASE s.op = "upsert_note"  -> UpsertNote(d, s.row)
    [] s.op = "delete_owned" ->
         [ok |-> TRUE, db |-> [d EXCEPT ![s.table] = DeleteOwned(d, s.table, {s.id})]]
    [] s.op = "insert"       -> InsertRow(d, s.table, s.row, s.conflict)
    [] s.op = "insert_card_backlink" ->
         LET found == FindCard(d, s.row)
         IN  IF found = <<>> THEN [ok |-> TRUE, db |-> d]
             ELSE InsertRow(d, "card_backlinks",
                            [source_id |-> s.id, card_id |-> found[1].id,
                             context |-> s.row.context], "ignore")
    [] s.op = "delete_note_path" ->
         [ok |-> TRUE, db |-> DeleteNotes(d, {n \in d.notes : n.path = s.row})]
    [] s.op = "delete_note_id" ->
         [ok |-> TRUE, db |-> DeleteNotes(d, {n \in d.notes : n.id = s.id})]

(* A closure runs its statements in order, each committed on its own (no   *)
(* transaction is opened); the first statement that fails ends the closure *)
(* with Err through `?`.  failAt > 0 is a storage failure of that          *)
(* statement.                                                              *)
RECURSIVE RunStmts(_, _, _, _)
Continue(r, d, stmts, i, failAt) ==
  IF r.ok THEN RunStmts(r.db, stmts, i + 1, failAt) ELSE [ok |-> FALSE, db |-> d]

RunStmts(d, stmts, i, failAt) ==
  IF i > Len(stmts) THEN [ok |-> TRUE, db |-> d]
  ELSE IF i = failAt THEN [ok |-> FALSE, db |-> d]
  ELSE Continue(Exec(d, stmts[i]), d, stmts, i, failAt)

Stmt(op, table, id, row, conflict) ==
  [op |-> op, table |-> table, id |-> id, row |-> row, conflict |-> conflict]


(***************************************************************************)
(* Bounds                                                                  *)
(***************************************************************************)
MaxFaults == 1
MaxCards == 1

(***************************************************************************)
(* State                                                                   *)
(***************************************************************************)
VARIABLES
  disk,    \* the vault's files: path -> [text, ctime, mtime]; text 0 = no file
  now,     \* the file system's clock, in seconds
  db,      \* the open vault's index (DatabaseState.conn)
  faults,  \* storage failures injected so far
  vault,   \* the index_vault run in flight: [pc, todo, clean]
  base,    \* the series of index_vault runs over unchanged files: the index
           \* it began with, whether a run of it aborted, whether one completed
  last,    \* the step taken last and what it found
  dv,      \* the dataview query executed last and what came of it
  graph,   \* the link-graph query answered last and its rows
  ctx,     \* the context window computed last: the content, the match, the cut
  conn,    \* the mutex around the connection: who holds it, how far each
           \* closure has run, what the reader saw
  scan,    \* the text handed to an extractor or to set_note_archived, and
           \* what came of it: the code blocks; the flag asked for, the
           \* content written and the archived flag indexed
  app      \* the vault that is open, the index file of the other vault, and
           \* the commands in flight: where each stands and what it read

vars == <<disk, now, db, faults, vault, base, last, dv, graph, ctx, conn, scan, app>>

NoFile == [text |-> 0, ctime |-> 0, mtime |-> 0]
NoPath == [dir |-> <<>>, stem |-> "", ext |-> ""]
NoGraph == [op |-> "none", path |-> NoPath, rows |-> {}]
NoCtx == [op |-> "none", content |-> [w |-> 2, n1 |-> 0, a |-> 0, n2 |-> 0],
          pos |-> 0, len |-> 0, start |-> 0, end |-> 0]
NoSight == [some |-> FALSE, notes |-> {}, db |-> EmptyDb]
NoConn == [w |-> "idle", i |-> 0, path |-> NoPath, r |-> "idle", seen |-> NoSight]
NoCall == [op |-> "none", pc |-> "idle", path |-> NoPath, text |-> 0,
           read |-> [text |-> 0, ctime |-> 0, mtime |-> 0]]
MaxCalls == 2
Calls == 1..MaxCalls
NoApp == [vault_path |-> "A", shelf |-> EmptyDb, calls |-> [c \in Calls |-> NoCall]]
NoScan == [lines |-> <<>>, done |-> FALSE, blocks |-> <<>>,
           archived |-> FALSE, content |-> <<>>, flag |-> FALSE]
NoBase == [set |-> FALSE, db |-> EmptyDb, aborted |-> FALSE, completed |-> FALSE]
Exists(dk, p) == dk[p].text # 0

(* The content the index holds for a path; 0 when it holds no note of it.  *)
Indexed(d, path) ==
  IF \E n \in d.notes : n.path = path
  THEN (CHOOSE n \in d.notes : n.path = path).content
  ELSE 0

(* The record of a step: the operation it ended in, the command it came    *)
(* from, the path and text it worked on, whether it returned Ok; what the  *)
(* index held for the path before (was); whether it repeats the step       *)
(* before it (again); for a finished index_vault run, whether the files    *)
(* and the index were left alone during it (clean), how many files it      *)
(* indexed (count), whether it purged a note (purged), and whether the     *)
(* series it belongs to had an aborted or a completed run before it.       *)
Last(op, by, path, ok, text) ==
  [op |-> op, by |-> by, path |-> path, from |-> NoPath, ok |-> ok, text |-> text,
   was |-> Indexed(db, path),
   again |-> /\ op = "index_single_note" /\ ok
             /\ last.op = "index_single_note" /\ last.ok
             /\ last.path = path /\ last.text = text,
   clean |-> FALSE, count |-> 0, purged |-> FALSE,
   after_abort |-> FALSE, after_run |-> FALSE]

(***************************************************************************)
(* index_single_note (indexer.rs:121-276)                                  *)
(***************************************************************************)
(* indexer.rs:128-158: what the extractors make of each text, computed     *)
(* before the closure runs.                                                *)
Extracted ==
  [t \in TextIds |->
     LET lines == Texts[t]
         fm    == extract_frontmatter(lines)
     IN  [frontmatter |-> fm,
          archived    |-> extract_archived(fm),
          entities    |-> extract_entities(lines),
          tags        |-> extract_tags(lines, fm),
          code_blocks |-> extract_code_blocks(lines),
          links       |-> extract_links(lines),
          card_links  |-> extract_card_links(lines),
          blocks      |-> extract_blocks(lines),
          aliases     |-> extract_aliases(fm)]]

NoteRow(path, file) ==
  [id |-> generate_note_id(path), path |-> path,
   title |-> extract_title(Texts[file.text], path), content |-> file.text,
   content_hash |-> hash_content(file.text),
   created_at |-> file.ctime, modified_at |-> file.mtime,
   frontmatter |-> Extracted[file.text].frontmatter,
   archived |-> Extracted[file.text].archived]

(* indexer.rs:178-187: the DELETE statements, in order.                    *)
DeleteOrderNoTags ==
  <<"entities", "code_blocks", "backlinks", "card_backlinks", "blocks", "aliases">>
DeleteOrderNoCodeBlocks ==
  <<"entities", "tags", "backlinks", "card_backlinks", "blocks", "aliases">>
DeleteOrderNoEntities ==
  <<"tags", "code_blocks", "backlinks", "card_backlinks", "blocks", "aliases">>
DeleteOrder ==
  <<"entities", "tags", "code_blocks", "backlinks", "card_backlinks", "blocks", "aliases">>

WithId(id, r, key) == [x \in DOMAIN r \cup {key} |-> IF x = key THEN id ELSE r[x]]

Inserts(t, id, rows, key, conflict) ==
  [i \in 1..Len(rows) |-> Stmt("insert", t, id, WithId(id, rows[i], key), conflict)]

(* indexer.rs:189-272: the INSERT statements, in order.                    *)
InsertStmts(id, x) ==
  LET tagrows   == [i \in 1..Len(x.tags) |-> [tag |-> x.tags[i]]]
      aliasrows == [i \in 1..Len(x.aliases) |-> [alias |-> x.aliases[i]]]
  IN  Inserts("entities", id, x.entities, "note_id", "abort")
      \o Inserts("tags", id, tagrows, "note_id", "abort")
      \o Inserts("code_blocks", id, x.code_blocks, "note_id", "abort")
      \o Inserts("backlinks", id, x.links, "source_id", "ignore")
      \o [i \in 1..Len(x.card_links) |->
            Stmt("insert_card_backlink", "card_backlinks", id, x.card_links[i], "ignore")]
      \o Inserts("blocks", id, x.blocks, "note_id", "replace")
      \o Inserts("aliases", id, aliasrows, "note_id", "ignore")

(* indexer.rs:178-272 for each path and text.                              *)
DerivedStmts ==
  [path \in Paths \cup {PathRoot} |-> [t \in TextIds |->
     [i \in 1..Len(DeleteOrder) |->
        Stmt("delete_owned", DeleteOrder[i], generate_note_id(path), path, "")]
     \o InsertStmts(generate_note_id(path), Extracted[t])]]

IndexStmts(path, file) ==
  LET row == NoteRow(path, file)
  IN  <<Stmt("upsert_note", "notes", row.id, row, "")>> \o DerivedStmts[path][file.text]

(* The file is read first (an absent file is a read error, before the      *)
(* index is touched); then one closure runs the statements.                *)
index_single_note(d, dk, path, failAt) ==
  IF ~Exists(dk, path) THEN [ok |-> FALSE, db |-> d]
  ELSE RunStmts(d, IndexStmts(path, dk[path]), 1, failAt)

(* indexer.rs:279-287 *)
RemoveStmtsOfNoNote(path) == <<>>
RemoveStmts(path) == <<Stmt("delete_note_path", "notes", generate_note_id(path), path, "")>>
remove_note_from_index(d, path, failAt) == RunStmts(d, RemoveStmts(path), 1, failAt)

(* indexer.rs:63-76: the purge of one note whose file is gone.             *)
PurgeStmtsKeepingNote(path) ==
  [i \in 1..Len(DeleteOrder) |->
     Stmt("delete_owned", DeleteOrder[i], generate_note_id(path), path, "")]
PurgeStmts(path) ==
  LET id == generate_note_id(path)
      order == <<"entities", "tags", "code_blocks", "backlinks", "card_backlinks",
                 "blocks", "aliases">>
  IN  [i \in 1..Len(order) |-> Stmt("delete_owned", order[i], id, path, "")]
      \o <<Stmt("delete_note_id", "notes", id, path, "")>>

(* Where a storage failure may strike a closure of n statements, while the *)
(* budget lasts: nowhere (0); at its first statement; at its second, with  *)
(* the note row written and the old rows still there; at the first INSERT, *)
(* with the old rows gone; at its last statement, with the new rows partly *)
(* written.                                                                *)
FailPoints(n) ==
  IF faults < MaxFaults
  THEN {0} \cup ({1, 2, Len(DeleteOrder) + 2, n} \cap 1..n)
  ELSE {0}
Charge(k) == faults' = IF k > 0 THEN faults + 1 ELSE faults

(* A change of the files or of the index outside the index_vault run in    *)
(* flight ends the series of runs and marks the run as disturbed.          *)
Disturb ==
  /\ vault' = [vault EXCEPT !.clean = FALSE]
  /\ base' = NoBase


(***************************************************************************)
(* The file system outside the application: an editor, a sync, the shell.  *)
(***************************************************************************)
Written(path, content) ==
  [text |-> content,
   ctime |-> IF Exists(disk, path) THEN disk[path].ctime ELSE now,
   mtime |-> now]

ExternalEdit(path, content) ==
  /\ disk' = [disk EXCEPT ![path] = Written(path, content)]
  /\ Disturb
  /\ last' = Last("change", "external", NoPath, TRUE, 0)
  /\ UNCHANGED <<now, db, faults, dv, graph, ctx, conn, scan, app>>

ExternalRemove(path) ==
  /\ Exists(disk, path)
  /\ disk' = [disk EXCEPT ![path] = NoFile]
  /\ Disturb
  /\ last' = Last("change", "external", NoPath, TRUE, 0)
  /\ UNCHANGED <<now, db, faults, dv, graph, ctx, conn, scan, app>>

(***************************************************************************)
(* Note commands (commands/notes.rs)                                       *)
(***************************************************************************)
(* notes.rs:139-197 *)
write_note(path, content, create_if_missing) ==
  /\ Exists(disk, path) \/ create_if_missing
  /\ LET file == Written(path, content)
         dk   == [disk EXCEPT ![path] = file]
     IN  \E k \in FailPoints(Len(IndexStmts(path, file))) :
           \E r \in {index_single_note(db, dk, path, k)} :
               /\ disk' = dk
               /\ db' = r.db
               /\ Charge(k)
               /\ last' = Last("index_single_note", "write_note", path, r.ok, content)
  /\ Disturb
  /\ UNCHANGED <<now, dv, graph, ctx, conn, scan, app>>

(* notes.rs:201-215 *)
delete_note(path) ==
  /\ Exists(disk, path)
  /\ disk' = [disk EXCEPT ![path] = NoFile]
  /\ \E k \in FailPoints(Len(RemoveStmts(path))) :
       \E r \in {remove_note_from_index(db, path, k)} :
           /\ db' = r.db
           /\ Charge(k)
           /\ last' = Last("remove_note_from_index", "delete_note", path, r.ok, 0)
  /\ Disturb
  /\ UNCHANGED <<now, dv, graph, ctx, conn, scan, app>>

(* notes.rs:219-284 *)
rename_note(old_path, new_path) ==
  /\ Exists(disk, old_path)
  /\ ~Exists(disk, new_path)
  /\ LET file == disk[old_path]
         dk   == [disk EXCEPT ![new_path] = file, ![old_path] = NoFile]
     IN  \E k \in FailPoints(1 + Len(IndexStmts(new_path, file))) :
           \E r1 \in {remove_note_from_index(db, old_path, IF k = 1 THEN 1 ELSE 0)} :
           \E r2 \in {index_single_note(r1.db, dk, new_path, IF k > 1 THEN k - 1 ELSE 0)} :
               /\ disk' = dk
               /\ Charge(k)
               /\ IF r1.ok
                  THEN /\ db' = r2.db
                       /\ last' = [Last("index_single_note", "rename_note", new_path,
                                        r2.ok, file.text)
                                   EXCEPT !.from = old_path,
                                          !.was = Indexed(db, old_path)]
                  ELSE /\ db' = r1.db
                       /\ last' = [Last("remove_note_from_index", "rename_note", old_path,
                                        FALSE, 0) EXCEPT !.from = old_path]
  /\ Disturb
  /\ UNCHANGED <<now, dv, graph, ctx, conn, scan, app>>

(***************************************************************************)
(* Kanban cards, as far as card links need them (commands/kanban.rs)       *)
(***************************************************************************)
CardIds == 1..MaxCards
CardTitles == {"Fix"}

(* kanban.rs:405-454 *)
kanban_add_card(board_id, title) ==
  /\ Len(db.kanban_cards) < MaxCards
  /\ LET id == CHOOSE c \in CardIds :
                 \A i \in 1..Len(db.kanban_cards) : db.kanban_cards[i].id # c
     IN  db' = [db EXCEPT !.kanban_cards =
                  Append(@, [id |-> id, board_id |-> board_id, title |-> title])]
  /\ Disturb
  /\ last' = Last("add_card", "kanban", NoPath, TRUE, 0)
  /\ UNCHANGED <<disk, now, faults, dv, graph, ctx, conn, scan, app>>

(* kanban.rs:529-536, with schema.rs:169 (card_id ... ON DELETE CASCADE) *)
kanban_delete_card(i) ==
  /\ i \in 1..Len(db.kanban_cards)
  /\ LET id == db.kanban_cards[i].id
     IN  db' = [db EXCEPT
                  !.kanban_cards = SubSeq(@, 1, i - 1) \o SubSeq(@, i + 1, Len(@)),
                  !.card_backlinks = {r \in @ : r.card_id # id}]
  /\ Disturb
  /\ last' = Last("delete_card", "kanban", NoPath, TRUE, 0)
  /\ UNCHANGED <<disk, now, faults, dv, graph, ctx, conn, scan, app>>

(***************************************************************************)
(* index_vault (indexer.rs:38-118).  The run gives up the lock between its *)
(* closures, so it advances one file at a time; the order in which the     *)
(* SELECT and the directory walk deliver the paths is not fixed.           *)
(***************************************************************************)
Idle == [pc |-> "idle", todo |-> {}, clean |-> FALSE, count |-> 0, purged |-> FALSE]
Aborted(ok) == base' = IF ok \/ ~base.set THEN base ELSE [base EXCEPT !.aborted = TRUE]

(* indexer.rs:104 *)
Eligible(path) == path.dir # <<>> /\ path.dir[1] = "notes" /\ path.ext = "md"

(* indexer.rs:43-50: SELECT path FROM notes *)
index_vault_begin ==
  /\ vault.pc = "idle"
  /\ vault' = [pc |-> "cleanup", todo |-> {n.path : n \in db.notes}, clean |-> TRUE,
               count |-> 0, purged |-> FALSE]
  /\ base' = IF base.set THEN base ELSE [NoBase EXCEPT !.set = TRUE, !.db = db]
  /\ last' = Last("begin", "index_vault", NoPath, TRUE, 0)
  /\ UNCHANGED <<disk, now, db, faults, dv, graph, ctx, conn, scan, app>>

(* indexer.rs:54-80: one iteration of the loop over db_paths *)
cleanup_deleted_notes(db_path) ==
  /\ vault.pc = "cleanup"
  /\ db_path \in vault.todo
  /\ IF Exists(disk, db_path)
     THEN /\ vault' = [vault EXCEPT !.todo = @ \ {db_path}]
          /\ last' = Last("cleanup", "index_vault", NoPath, TRUE, 0)
          /\ UNCHANGED <<db, faults, base>>
     ELSE \E k \in FailPoints(Len(PurgeStmts(db_path))) :
            \E r \in {RunStmts(db, PurgeStmts(db_path), 1, k)} :
                /\ db' = r.db
                /\ Charge(k)
                /\ vault' = IF r.ok
                            THEN [vault EXCEPT !.todo = @ \ {db_path},
                                               !.purged = @ \/ Indexed(db, db_path) # 0]
                            ELSE Idle
                /\ Aborted(r.ok)
                /\ last' = Last("cleanup", "index_vault", NoPath, r.ok, 0)
  /\ UNCHANGED <<disk, now, dv, graph, ctx, conn, scan, app>>

(* indexer.rs:97-101: the walk of <vault>/notes starts *)
index_vault_walk ==
  /\ vault.pc = "cleanup"
  /\ vault.todo = {}
  /\ vault' = [vault EXCEPT !.pc = "walk",
                            !.todo = {p \in Paths : Exists(disk, p) /\ Eligible(p)}]
  /\ last' = Last("walk", "index_vault", NoPath, TRUE, 0)
  /\ UNCHANGED <<disk, now, db, faults, base, dv, graph, ctx, conn, scan, app>>

(* indexer.rs:102-114: one entry of the walk *)
index_vault_entry(path) ==
  /\ vault.pc = "walk"
  /\ path \in vault.todo
  /\ IF ~Exists(disk, path)
     THEN /\ vault' = [vault EXCEPT !.todo = @ \ {path}]
          /\ last' = Last("skip", "index_vault", NoPath, TRUE, 0)
          /\ UNCHANGED <<db, faults, base>>
     ELSE \E k \in FailPoints(Len(IndexStmts(path, disk[path]))) :
            \E r \in {index_single_note(db, disk, path, k)} :
                /\ db' = r.db
                /\ Charge(k)
                /\ vault' = IF r.ok
                            THEN [vault EXCEPT !.todo = @ \ {path}, !.count = @ + 1]
                            ELSE Idle
                /\ Aborted(r.ok)
                /\ last' = Last("index_single_note", "index_vault", path, r.ok,
                                disk[path].text)
  /\ UNCHANGED <<disk, now, dv, graph, ctx, conn, scan, app>>

(* indexer.rs:117: Ok(count) *)
index_vault_end ==
  /\ vault.pc = "walk"
  /\ vault.todo = {}
  /\ vault' = Idle
  /\ last' = [Last("index_vault", "index_vault", NoPath, TRUE, 0)
                EXCEPT !.clean = vault.clean, !.count = vault.count,
                       !.purged = vault.purged,
                       !.after_abort = base.aborted, !.after_run = base.completed]
  /\ base' = IF base.set THEN [base EXCEPT !.completed = TRUE] ELSE base
  /\ UNCHANGED <<disk, now, db, faults, dv, graph, ctx, conn, scan, app>>

(***************************************************************************)
(* Dataview (db/dataview.rs).  A string that can reach SQL is a sequence   *)
(* of lexemes and SQL text is the sequence of its tokens, so that text     *)
(* spliced into a statement is lexed together with the statement.          *)
(***************************************************************************)
None == [some |-> FALSE]
Some(x) == [some |-> TRUE, v |-> x]

(* serde_json::Value, as far as conditions carry it.                       *)
VString(s) == [t |-> "String", s |-> s]
VNumber(n) == [t |-> "Number", n |-> n]
VBool(b)   == [t |-> "Bool", b |-> b]
VNull      == [t |-> "Null"]

(* dataview.rs:20-23, 27-33, 37-40, 44-52 *)
FromSource(source_type, value) == [source_type |-> source_type, value |-> value]

SerializedCondition(condition_type, field, operator, value, conditions) ==
  [condition_type |-> condition_type, field |-> field, operator |-> operator,
   value |-> value, conditions |-> conditions]

SortClause(field, direction) == [field |-> field, direction |-> direction]

SerializedQuery(query_type, fields, from_sources, where_clause, sort_clauses, limit) ==
  [query_type |-> query_type, fields |-> fields, from_sources |-> from_sources,
   where_clause |-> where_clause, sort_clauses |-> sort_clauses,
   group_by |-> None, limit |-> limit]

(* str::to_uppercase on the operator and direction strings of the model.   *)
Upper(s) ==
  CASE s = "contains"   -> "CONTAINS"
    [] s = "startswith" -> "STARTSWITH"
    [] s = "endswith"   -> "ENDSWITH"
    [] s = "desc"       -> "DESC"
    [] s = "asc"        -> "ASC"
    [] OTHER            -> s

(* str::trim_matches: strip the characters of chars from both ends.        *)
RECURSIVE TrimStart(_, _)
TrimStart(s, chars) ==
  IF s # <<>> /\ Head(s) \in chars THEN TrimStart(Tail(s), chars) ELSE s

RECURSIVE TrimEnd(_, _)
TrimEnd(s, chars) ==
  IF s # <<>> /\ s[Len(s)] \in chars THEN TrimEnd(SubSeq(s, 1, Len(s) - 1), chars) ELSE s

trim_matches(s, chars) == TrimEnd(TrimStart(s, chars), chars)

(* [String]::join *)
RECURSIVE JoinSql(_, _)
JoinSql(parts, sep) ==
  IF parts = <<>> THEN <<>>
  ELSE IF Len(parts) = 1 THEN parts[1]
  ELSE parts[1] \o sep \o JoinSql(Tail(parts), sep)

(* dataview.rs:321: the expression file.folder maps to, one piece of text  *)
FolderSql == "substr(n.path, 1, length(n.path) - length(replace(n.path, '/', '')) - 1)"

(* dataview.rs:314-329 *)
map_field_to_sql(field) ==
  CASE field \in {<<"file.name">>, <<"title">>}     -> <<"n.title">>
    [] field \in {<<"file.path">>, <<"path">>}      -> <<"n.path">>
    [] field \in {<<"file.ctime">>, <<"created">>}  -> <<"n.created_at">>
    [] field \in {<<"file.mtime">>, <<"modified">>} -> <<"n.modified_at">>
    [] field = <<"file.folder">>                    -> <<FolderSql>>
    [] field \in {<<"file.tags">>, <<"tags">>}      -> <<"t.tag">>
    [] OTHER -> <<"json_extract", "(", "n.frontmatter", ",", "'", "$.">> \o field
                \o <<"'", ")">>

(* dataview.rs:331-357 *)
map_operator_and_value_lenient(operator, value) ==
  [ok |-> TRUE, op |-> "=", value |-> <<>>, err |-> ""]
map_operator_and_value(operator, value) ==
  LET sql_value == CASE value.t = "String" -> value.s
                     [] value.t = "Number" -> <<ToString(value.n)>>
                     [] value.t = "Bool"   -> IF value.b THEN <<"1">> ELSE <<"0">>
                     [] value.t = "Null"   -> <<"NULL">>
      op == Upper(operator)
      Done(sql_op, v) == [ok |-> TRUE, op |-> sql_op, value |-> v, err |-> ""]
  IN  CASE op \in {"=", "!=", ">", "<", ">=", "<="} -> Done(op, sql_value)
        [] op = "CONTAINS"   -> Done("LIKE", <<"%">> \o sql_value \o <<"%">>)
        [] op = "STARTSWITH" -> Done("LIKE", sql_value \o <<"%">>)
        [] op = "ENDSWITH"   -> Done("LIKE", <<"%">> \o sql_value)
        [] OTHER -> [ok |-> FALSE, op |-> "", value |-> <<>>, err |-> "Unknown operator"]

CompileErr(msg) == [ok |-> FALSE, sql |-> <<>>, params |-> <<>>, err |-> msg]
CompileOk(sql, params) == [ok |-> TRUE, sql |-> sql, params |-> params, err |-> ""]

(* dataview.rs:266 *)
comparison_sql_inlined(sql_field, sql_op, sql_value) ==
  CompileOk(sql_field \o <<sql_op, "'">> \o sql_value \o <<"'">>, <<>>)
comparison_sql(sql_field, sql_op, sql_value) ==
  CompileOk(sql_field \o <<sql_op, "?">>, <<sql_value>>)

(* dataview.rs:263-266 *)
Leaf(sql_field, m) ==
  IF ~m.ok THEN CompileErr(m.err) ELSE comparison_sql(sql_field, m.op, m.value)

(* dataview.rs:280, 294 *)
Parenthesized(r, sep) ==
  IF ~r.ok THEN CompileErr(r.err)
  ELSE CompileOk(<<"(">> \o JoinSql(r.parts, <<sep>>) \o <<")">>, r.params)

(* dataview.rs:304-305 *)
Negated(r) ==
  IF ~r.ok THEN r ELSE CompileOk(<<"NOT", "(">> \o r.sql \o <<")">>, r.params)

RECURSIVE build_condition(_)
RECURSIVE build_conditions(_, _, _)

(* dataview.rs:276-278, 290-292: the body of the loops over conditions     *)
Collected(r, conditions, i, acc) ==
  IF ~r.ok THEN [ok |-> FALSE, parts |-> <<>>, params |-> <<>>, err |-> r.err]
  ELSE build_conditions(conditions, i + 1,
                        [acc EXCEPT !.parts = Append(@, r.sql), !.params = @ \o r.params])

(* dataview.rs:273-279, 287-293 *)
build_conditions(conditions, i, acc) ==
  IF i > Len(conditions) THEN acc
  ELSE Collected(build_condition(conditions[i]), conditions, i, acc)

(* dataview.rs:247-312 *)
build_condition(condition) ==
  LET none == [ok |-> TRUE, parts |-> <<>>, params |-> <<>>, err |-> ""]
  IN  CASE condition.condition_type = "comparison" ->
             IF ~condition.field.some THEN CompileErr("Missing field in comparison")
             ELSE IF ~condition.operator.some
                    THEN CompileErr("Missing operator in comparison")
             ELSE IF ~condition.value.some THEN CompileErr("Missing value in comparison")
             ELSE Leaf(map_field_to_sql(condition.field.v),
                       map_operator_and_value(condition.operator.v, condition.value.v))
        [] condition.condition_type = "and" ->
             IF ~condition.conditions.some THEN CompileErr("Missing conditions in AND")
             ELSE Parenthesized(build_conditions(condition.conditions.v, 1, none), "AND")
        [] condition.condition_type = "or" ->
             IF ~condition.conditions.some THEN CompileErr("Missing conditions in OR")
             ELSE Parenthesized(build_conditions(condition.conditions.v, 1, none), "OR")
        [] condition.condition_type = "not" ->
             IF ~condition.conditions.some THEN CompileErr("Missing conditions in NOT")
             ELSE IF condition.conditions.v = <<>> THEN CompileErr("Empty NOT conditions")
             ELSE Negated(build_condition(condition.conditions.v[1]))
        [] OTHER -> CompileErr("Unknown condition type")

(* dataview.rs:228-245 *)
RECURSIVE condition_references_tags(_)
condition_references_tags(condition) ==
  IF ~condition.some THEN FALSE
  ELSE LET c == condition.v
       IN  IF c.field.some /\ c.field.v # <<>>
              /\ (c.field.v[1] = "file.tags" \/ c.field.v = <<"tags">>)
           THEN TRUE
           ELSE IF c.conditions.some
                THEN \E i \in DOMAIN c.conditions.v :
                       condition_references_tags(Some(c.conditions.v[i]))
                ELSE FALSE

SelectSql ==
  <<"SELECT", "n.path", ",", "n.title", ",", "n.created_at", ",", "n.modified_at", ",",
    "n.frontmatter">>
FromSql == <<"FROM", "notes", "n">>
TagsJoinSql == <<"LEFT", "JOIN", "tags", "t", "ON", "t.note_id", "=", "n.id">>
LinkJoinSql ==
  <<"INNER", "JOIN", "backlinks", "b", "ON", "b.source_id", "=", "n.id", "AND",
    "b.target_path", "LIKE", "?">>

(* dataview.rs:124-147: the loop over from_sources                         *)
RECURSIVE Sources(_, _, _)
Sources(from_sources, i, st) ==
  IF i > Len(from_sources) THEN st
  ELSE LET source == from_sources[i]
       IN  Sources(from_sources, i + 1,
             CASE source.source_type = "folder" ->
                    [st EXCEPT !.where_parts = Append(@, <<"n.path", "LIKE", "?">>),
                               !.params = Append(@,
                                  trim_matches(trim_matches(source.value, {"\""}), {"/"})
                                  \o <<"%">>)]
               [] source.source_type = "tag" ->
                    [st EXCEPT !.where_parts = Append(@, <<"t.tag", "=", "?">>),
                               !.params = Append(@, trim_matches(source.value, {"#"}))]
               [] source.source_type = "link" ->
                    [st EXCEPT !.sql = @ \o LinkJoinSql,
                               !.params = Append(@,
                                  <<"%">> \o trim_matches(source.value, {"[", "]"})
                                  \o <<"%">>)]
               [] OTHER -> st)

(* dataview.rs:150-154 *)
Where(st, where_clause) ==
  IF ~where_clause.some THEN [st EXCEPT !.ok = TRUE]
  ELSE LET r == build_condition(where_clause.v)
       IN  IF ~r.ok THEN [st EXCEPT !.ok = FALSE, !.err = r.err]
           ELSE [st EXCEPT !.ok = TRUE, !.where_parts = Append(@, r.sql),
                           !.params = @ \o r.params]

(* dataview.rs:100-191: the statement and its parameters                   *)
CompiledQuery(query) ==
  LET needs_tags_join ==
        \/ \E i \in DOMAIN query.from_sources : query.from_sources[i].source_type = "tag"
        \/ condition_references_tags(query.where_clause)
      start == [ok |-> TRUE, err |-> "",
                sql |-> SelectSql \o FromSql
                        \o (IF needs_tags_join THEN TagsJoinSql ELSE <<>>),
                where_parts |-> << <<"n.archived", "=", "0">> >>,
                params |-> <<>>]
      st == Where(Sources(query.from_sources, 1, start), query.where_clause)
      order == IF query.sort_clauses # <<>>
               THEN <<"ORDER", "BY">>
                    \o JoinSql([i \in DOMAIN query.sort_clauses |->
                                  map_field_to_sql(query.sort_clauses[i].field)
                                  \o <<IF Upper(query.sort_clauses[i].direction) = "DESC"
                                       THEN "DESC" ELSE "ASC">>], <<",">>)
               ELSE <<"ORDER", "BY", "n.modified_at", "DESC">>
  IN  IF ~st.ok THEN CompileErr(st.err)
      ELSE CompileOk(st.sql \o <<"WHERE">> \o JoinSql(st.where_parts, <<"AND">>)
                     \o (IF needs_tags_join THEN <<"GROUP", "BY", "n.id">> ELSE <<>>)
                     \o order
                     \o (IF query.limit.some THEN <<"LIMIT", ToString(query.limit.v)>>
                         ELSE <<>>),
                     st.params)

(***************************************************************************)
(* The statement as SQLite reads it: values, comparison with column        *)
(* affinity, three-valued logic, and the expression grammar with NOT below *)
(* comparison, AND below NOT, OR below AND.                                *)
(***************************************************************************)
SqlNull         == [t |-> "null", n |-> 0, s |-> <<>>, aff |-> "NONE", map |-> EmptyMap]
SqlInt(n, aff)  == [t |-> "int", n |-> n, s |-> <<>>, aff |-> aff, map |-> EmptyMap]
SqlText(s, aff) == [t |-> "text", n |-> 0, s |-> s, aff |-> aff, map |-> EmptyMap]
SqlJson(map)    == [t |-> "text", n |-> 0, s |-> <<"{json}">>, aff |-> "TEXT", map |-> map]

(* The text of a vault-relative path, as stored in notes.path.             *)
PathText(path) ==
  JoinSql([i \in DOMAIN path.dir |-> <<path.dir[i]>>], <<"/">>)
  \o (IF path.dir = <<>> THEN <<>> ELSE <<"/">>) \o <<path.stem, ".", path.ext>>

(* Text that is a number, and the number it is.                            *)
Numerals == ("-1" :> (0 - 1)) @@ ("0" :> 0) @@ ("1" :> 1) @@ ("2" :> 2) @@ ("3" :> 3)
NumericText(s) == Len(s) = 1 /\ s[1] \in DOMAIN Numerals

TextOf(v) == IF v.t = "int" THEN <<ToString(v.n)>> ELSE v.s

(* The order of text values: by the first lexeme that differs.             *)
Collation == <<"%", "'", "0", "1", "2", "3", "Home", "a", "b", "blue", "done", "green",
               "notes", "red", "true", "x">>
AtomRank(a) ==
  IF \E i \in DOMAIN Collation : Collation[i] = a
  THEN CHOOSE i \in DOMAIN Collation : Collation[i] = a
  ELSE Len(Collation) + 1

RECURSIVE TextCmp(_, _)
TextCmp(a, b) ==
  IF a = <<>> /\ b = <<>> THEN 0
  ELSE IF a = <<>> THEN 0 - 1
  ELSE IF b = <<>> THEN 1
  ELSE IF Head(a) = Head(b) THEN TextCmp(Tail(a), Tail(b))
  ELSE IF AtomRank(Head(a)) < AtomRank(Head(b)) THEN 0 - 1 ELSE 1

(* The affinity of the other operand applied to v before a comparison.     *)
Affine(v, other) ==
  IF other.aff = "INTEGER" /\ v.aff # "INTEGER" /\ v.t = "text" /\ NumericText(v.s)
  THEN SqlInt(Numerals[v.s[1]], "NONE")
  ELSE IF other.aff = "TEXT" /\ v.aff = "NONE" /\ v.t = "int"
       THEN SqlText(TextOf(v), "NONE")
       ELSE v

StorageCmp(l, r) ==
  CASE l.t = "int" /\ r.t = "int"   -> IF l.n < r.n THEN 0 - 1 ELSE IF l.n > r.n THEN 1 ELSE 0
    [] l.t = "int" /\ r.t = "text"  -> 0 - 1
    [] l.t = "text" /\ r.t = "int"  -> 1
    [] l.t = "text" /\ r.t = "text" -> TextCmp(l.s, r.s)

(* LIKE: % matches any run of lexemes; letters match without case.         *)
RECURSIVE LikeMatch(_, _, _, _)
LikeMatch(s, i, pat, j) ==
  IF j > Len(pat) THEN i > Len(s)
  ELSE IF pat[j] = "%" THEN \E k \in i..(Len(s) + 1) : LikeMatch(s, k, pat, j + 1)
  ELSE i <= Len(s) /\ Lower(s[i]) = Lower(pat[j]) /\ LikeMatch(s, i + 1, pat, j + 1)

SqlBool(b) == SqlInt(IF b THEN 1 ELSE 0, "NONE")

CmpOps == {"=", "!=", ">", "<", ">=", "<=", "LIKE"}

Compare(op, l0, r0) ==
  IF l0.t = "null" \/ r0.t = "null" THEN SqlNull
  ELSE IF op = "LIKE" THEN SqlBool(LikeMatch(TextOf(l0), 1, TextOf(r0), 1))
  ELSE LET c == StorageCmp(Affine(l0, r0), Affine(r0, l0))
       IN  SqlBool(CASE op = "="  -> c = 0
                     [] op = "!=" -> c # 0
                     [] op = ">"  -> c > 0
                     [] op = "<"  -> c < 0
                     [] op = ">=" -> c >= 0
                     [] op = "<=" -> c <= 0)

(* The truth of a value: "T", "F", or "U" for NULL.                        *)
Truth3(v) ==
  CASE v.t = "null" -> "U"
    [] v.t = "int"  -> IF v.n # 0 THEN "T" ELSE "F"
    [] v.t = "text" -> IF NumericText(v.s) /\ Numerals[v.s[1]] # 0 THEN "T" ELSE "F"

Of3(x) == IF x = "U" THEN SqlNull ELSE SqlBool(x = "T")
And3(a, b) ==
  Of3(IF Truth3(a) = "F" \/ Truth3(b) = "F" THEN "F"
      ELSE IF Truth3(a) = "U" \/ Truth3(b) = "U" THEN "U" ELSE "T")
Or3(a, b) ==
  Of3(IF Truth3(a) = "T" \/ Truth3(b) = "T" THEN "T"
      ELSE IF Truth3(a) = "U" \/ Truth3(b) = "U" THEN "U" ELSE "F")
Not3(a) == Of3(IF Truth3(a) = "U" THEN "U" ELSE IF Truth3(a) = "T" THEN "F" ELSE "T")

(* json_extract(doc, '$.key') over the front-matter documents the indexer  *)
(* stores: an object of strings and arrays of strings.                     *)
JsonExtract(doc, path) ==
  IF doc.t = "null" \/ path.t = "null" THEN SqlNull
  ELSE IF /\ doc.s = <<"{json}">> /\ Len(path.s) = 2 /\ path.s[1] = "$."
          /\ path.s[2] \in DOMAIN doc.map
       THEN LET j == doc.map[path.s[2]]
            IN  IF j.arr THEN SqlText(<<"[">> \o j.xs \o <<"]">>, "NONE")
                ELSE SqlText(j.xs, "NONE")
       ELSE SqlNull

(* A row of the join: a note, the tag row and the backlink row joined to   *)
(* it.  NoRow is the row a statement is prepared against.                  *)
NoRow == [n |-> None, t |-> None, b |-> None]

Columns ==
  {"n.id", "n.path", "n.title", "n.created_at", "n.modified_at", "n.frontmatter",
   "n.archived", "t.note_id", "t.tag", "b.source_id", "b.target_path", FolderSql}

IdText(id) == <<"id:">> \o PathText(id[2])

Column(env, name) ==
  CASE name \in {"t.note_id", "t.tag"} ->
         IF ~env.t.some THEN SqlNull
         ELSE IF name = "t.tag" THEN SqlText(<<env.t.v.tag>>, "TEXT")
         ELSE SqlText(IdText(env.t.v.note_id), "TEXT")
    [] name \in {"b.source_id", "b.target_path"} ->
         IF ~env.b.some THEN SqlNull
         ELSE IF name = "b.target_path" THEN SqlText(<<env.b.v.target_path>>, "TEXT")
         ELSE SqlText(IdText(env.b.v.source_id), "TEXT")
    [] OTHER ->
         IF ~env.n.some THEN SqlNull
         ELSE LET n == env.n.v
              IN  CASE name = "n.id"          -> SqlText(IdText(n.id), "TEXT")
                    [] name = "n.path"        -> SqlText(PathText(n.path), "TEXT")
                    [] name = "n.title"       -> SqlText(<<n.title>>, "TEXT")
                    [] name = "n.created_at"  -> SqlInt(n.created_at, "INTEGER")
                    [] name = "n.modified_at" -> SqlInt(n.modified_at, "INTEGER")
                    [] name = "n.archived"    -> SqlInt(IF n.archived THEN 1 ELSE 0, "INTEGER")
                    [] name = "n.frontmatter" ->
                         IF n.frontmatter.some THEN SqlJson(n.frontmatter.map) ELSE SqlNull
                    [] name = FolderSql       -> SqlText(<<>>, "NONE")

At(tk, i) == IF i \in DOMAIN tk THEN tk[i] ELSE "<end>"

RECURSIVE Closing(_, _)
Closing(tk, i) ==
  IF i > Len(tk) THEN 0 ELSE IF tk[i] = "'" THEN i ELSE Closing(tk, i + 1)

Parsed(v, i, p) == [ok |-> TRUE, v |-> v, i |-> i, p |-> p]
Unparsed == [ok |-> FALSE, v |-> SqlNull, i |-> 0, p |-> 0]

Cursor(i, p) == Parsed(SqlNull, i, p)
Step(l) == [l EXCEPT !.i = @ + 1]

Expect(r, tk, token) ==
  IF r.ok /\ At(tk, r.i) = token THEN [r EXCEPT !.i = @ + 1] ELSE Unparsed

Quoted(tk, l, close) ==
  IF close = 0 THEN Unparsed
  ELSE Parsed(SqlText(SubSeq(tk, l.i + 1, close - 1), "NONE"), close + 1, l.p)

Applied2(a, b, tk) ==
  IF b.ok /\ At(tk, b.i) = ")" THEN Parsed(JsonExtract(a.v, b.v), b.i + 1, b.p)
  ELSE Unparsed

Compared(op, l, r) == IF r.ok THEN Parsed(Compare(op, l.v, r.v), r.i, r.p) ELSE Unparsed
Not3Of(r) == IF r.ok THEN [r EXCEPT !.v = Not3(@)] ELSE Unparsed
Anded(l, r) == IF r.ok THEN Parsed(And3(l.v, r.v), r.i, r.p) ELSE Unparsed
Ored(l, r) == IF r.ok THEN Parsed(Or3(l.v, r.v), r.i, r.p) ELSE Unparsed

(* An expression read from position l.i with l.p - 1 parameters taken, by  *)
(* SQLite's precedence: OR, AND, NOT, comparison, operand.  The tail rules *)
(* carry the value read so far in l.v.                                     *)
RECURSIVE Eval(_, _, _, _, _)
Applied1(a, tk, ps, env) == Applied2(a, Eval("or", tk, ps, env, Expect(a, tk, ",")), tk)

Eval(rule, tk, ps, env, l) ==
  IF ~l.ok THEN Unparsed
  ELSE CASE rule = "or" ->
              Eval("or_tail", tk, ps, env, Eval("and", tk, ps, env, l))
         [] rule = "or_tail" ->
              IF At(tk, l.i) = "OR"
              THEN Eval("or_tail", tk, ps, env, Ored(l, Eval("and", tk, ps, env, Step(l))))
              ELSE l
         [] rule = "and" ->
              Eval("and_tail", tk, ps, env, Eval("not", tk, ps, env, l))
         [] rule = "and_tail" ->
              IF At(tk, l.i) = "AND"
              THEN Eval("and_tail", tk, ps, env, Anded(l, Eval("not", tk, ps, env, Step(l))))
              ELSE l
         [] rule = "not" ->
              IF At(tk, l.i) = "NOT" THEN Not3Of(Eval("not", tk, ps, env, Step(l)))
              ELSE Eval("cmp_tail", tk, ps, env, Eval("operand", tk, ps, env, l))
         [] rule = "cmp_tail" ->
              IF At(tk, l.i) \in CmpOps
              THEN Eval("cmp_tail", tk, ps, env,
                        Compared(At(tk, l.i), l, Eval("operand", tk, ps, env, Step(l))))
              ELSE l
         [] rule = "operand" ->
              CASE At(tk, l.i) = "(" -> Expect(Eval("or", tk, ps, env, Step(l)), tk, ")")
                [] At(tk, l.i) = "?" ->
                     Parsed(IF l.p \in DOMAIN ps THEN SqlText(ps[l.p], "NONE") ELSE SqlNull,
                            l.i + 1, l.p + 1)
                [] At(tk, l.i) = "'" -> Quoted(tk, l, Closing(tk, l.i + 1))
                [] At(tk, l.i) \in DOMAIN Numerals ->
                     Parsed(SqlInt(Numerals[At(tk, l.i)], "NONE"), l.i + 1, l.p)
                [] At(tk, l.i) \in Columns -> Parsed(Column(env, At(tk, l.i)), l.i + 1, l.p)
                [] At(tk, l.i) = "json_extract" ->
                     Applied1(Eval("or", tk, ps, env, Expect(Step(l), tk, "(")), tk, ps, env)
                [] OTHER -> Unparsed

(***************************************************************************)
(* conn.prepare and query_map (dataview.rs:197-213) against the index      *)
(***************************************************************************)
Matches(tk, i, pattern) ==
  i + Len(pattern) - 1 <= Len(tk) /\ SubSeq(tk, i, i + Len(pattern) - 1) = pattern

RECURSIVE LinkJoins(_, _)
LinkJoins(tk, i) ==
  IF Matches(tk, i, LinkJoinSql) THEN 1 + LinkJoins(tk, i + Len(LinkJoinSql)) ELSE 0

(* ORDER BY term [ASC|DESC] {, term [ASC|DESC]}                            *)
RECURSIVE OrderTerms(_, _, _)
Ordered(r, tk) ==
  IF ~r.ok THEN Unparsed
  ELSE LET j == IF At(tk, r.i) \in {"ASC", "DESC"} THEN r.i + 1 ELSE r.i
       IN  IF At(tk, j) = "," THEN OrderTerms(tk, j + 1, r.p) ELSE [r EXCEPT !.i = j]
OrderTerms(tk, i, p) == Ordered(Eval("or", tk, <<>>, NoRow, Cursor(i, p)), tk)

NotPrepared ==
  [ok |-> FALSE, tags |-> FALSE, links |-> 0, where_at |-> 0, group |-> FALSE,
   limit |-> 0 - 1, nparams |-> 0]

(* The clauses after the joins: st.w is the WHERE expression as read, and  *)
(* st.o the ORDER BY terms.                                                *)
LimitRead(tk, st) ==
  IF ~st.o.ok THEN NotPrepared
  ELSE IF At(tk, st.o.i) = "LIMIT"
  THEN IF At(tk, st.o.i + 1) \in DOMAIN Numerals /\ st.o.i + 2 = Len(tk) + 1
       THEN [ok |-> TRUE, tags |-> st.tags, links |-> st.links, where_at |-> st.where_at,
             group |-> st.group, limit |-> Numerals[At(tk, st.o.i + 1)],
             nparams |-> st.o.p - 1]
       ELSE NotPrepared
  ELSE IF st.o.i = Len(tk) + 1
       THEN [ok |-> TRUE, tags |-> st.tags, links |-> st.links, where_at |-> st.where_at,
             group |-> st.group, limit |-> 0 - 1, nparams |-> st.o.p - 1]
       ELSE NotPrepared

OrderRead(tk, st, i) ==
  IF Matches(tk, i, <<"ORDER", "BY">>)
  THEN LimitRead(tk, [st EXCEPT !.o = OrderTerms(tk, i + 2, st.w.p)])
  ELSE LimitRead(tk, [st EXCEPT !.o = Cursor(i, st.w.p)])

GroupRead(tk, st) ==
  IF ~st.w.ok THEN NotPrepared
  ELSE IF Matches(tk, st.w.i, <<"GROUP", "BY", "n.id">>)
       THEN OrderRead(tk, [st EXCEPT !.group = TRUE], st.w.i + 3)
       ELSE OrderRead(tk, st, st.w.i)

WhereRead(tk, tags, links, i) ==
  IF links <= 1 /\ At(tk, i) = "WHERE"
  THEN GroupRead(tk, [tags |-> tags, links |-> links, where_at |-> i + 1, group |-> FALSE,
                      w |-> Eval("or", tk, <<>>, NoRow, Cursor(i + 1, links + 1)),
                      o |-> Unparsed])
  ELSE NotPrepared

LinksRead(tk, tags, links, i) == WhereRead(tk, tags, links, i + links * Len(LinkJoinSql))

TagsRead(tk, tags, i) ==
  LinksRead(tk, tags, LinkJoins(tk, IF tags THEN i + Len(TagsJoinSql) ELSE i),
            IF tags THEN i + Len(TagsJoinSql) ELSE i)

(* SQLite's tokenizer: -- outside a string literal starts a comment that    *)
(* runs to the end of the line, and the statement is one line.             *)
CommentAt(tk, i, quoted) ==
  LET open(j) == (Cardinality({k \in i..(j - 1) : tk[k] = "'"}) % 2 = 1) # quoted
      starts == {j \in i..Len(tk) : tk[j] = "--" /\ ~open(j)}
  IN  IF starts = {} THEN Len(tk) + 1
      ELSE CHOOSE j \in starts : \A k \in starts : j <= k

Statement(tk) == SubSeq(tk, 1, CommentAt(tk, 1, FALSE) - 1)

JoinsRead(tk, i) ==
  IF Matches(tk, 1, SelectSql \o FromSql) THEN TagsRead(tk, Matches(tk, i, TagsJoinSql), i)
  ELSE NotPrepared

(* The statement read clause by clause; a statement that does not parse,   *)
(* or that joins backlinks twice under the one alias b, is not prepared.   *)
sqlite_prepare(tk) == JoinsRead(Statement(tk), Len(SelectSql \o FromSql) + 1)

(* The rows of the join that pass WHERE.  A LEFT JOIN gives a note without *)
(* tags one row; a tag stored k times gives k rows.                        *)
Joined(d, prep, tk, ps) ==
  LET tagrows(n) ==
        IF ~prep.tags THEN {[row |-> None, copy |-> 1]}
        ELSE LET own == {r \in DOMAIN d.tags : r.note_id = n.id}
             IN  IF own = {} THEN {[row |-> None, copy |-> 1]}
                 ELSE UNION {{[row |-> Some(r), copy |-> k] : k \in 1..d.tags[r]}
                               : r \in own}
      linkrows(n) ==
        IF prep.links = 0 THEN {None}
        ELSE {Some(r) : r \in {x \in d.backlinks :
                                  /\ x.source_id = n.id
                                  /\ 1 \in DOMAIN ps
                                  /\ LikeMatch(<<x.target_path>>, 1, ps[1], 1)}}
      all == UNION {{[n |-> Some(n), t |-> t.row, b |-> b, copy |-> t.copy]
                       : t \in tagrows(n), b \in linkrows(n)} : n \in d.notes}
  IN  {c \in all : Truth3(Eval("or", tk, ps, c, Cursor(prep.where_at, prep.links + 1)).v) = "T"}

RECURSIVE SetToSeq(_)
SetToSeq(S) ==
  IF S = {} THEN <<>>
  ELSE LET x == CHOOSE y \in S : TRUE IN <<x>> \o SetToSeq(S \ {x})

(* dataview.rs:359-400 *)
extract_row(n, fields) ==
  LET std == {<<"file.name">>, <<"file.path">>, <<"file.ctime">>, <<"file.mtime">>}
             \cup (IF n.path.dir # <<>> THEN {<<"file.folder">>} ELSE {})
      fm  == {fields[i] : i \in {j \in DOMAIN fields :
                 /\ fields[j] # <<>>
                 /\ fields[j][1] \notin {"file.", "file.name", "file.path", "file.ctime",
                                         "file.mtime", "file.folder", "file.tags"}
                 /\ n.frontmatter.some
                 /\ Len(fields[j]) = 1
                 /\ fields[j][1] \in DOMAIN n.frontmatter.map}}
  IN  [path |-> PathText(n.path), title |-> n.title,
       values |-> [f \in std \cup fm |->
                     CASE f = <<"file.name">>   -> <<n.title>>
                       [] f = <<"file.path">>   -> PathText(n.path)
                       [] f = <<"file.ctime">>  -> n.created_at
                       [] f = <<"file.mtime">>  -> n.modified_at
                       [] f = <<"file.folder">> ->
                            JoinSql([i \in DOMAIN n.path.dir |-> <<n.path.dir[i]>>], <<"/">>)
                       [] OTHER -> n.frontmatter.map[f[1]]]]

(* dataview.rs:74-84 *)
DataviewResultError(message) ==
  [result_type |-> "LIST", columns |-> None, rows |-> <<>>, error |-> Some(message),
   execution_time |-> None]

(* What a call did: whether the condition tree compiled, the statement and *)
(* its parameters, whether the statement was prepared and stepped, and the *)
(* result returned.                                                        *)
Failed(message, c, prepared) ==
  [ok |-> FALSE, err |-> message, result |-> DataviewResultError(message),
   compiled |-> c.ok, sql |-> c.sql, params |-> c.params, prepared |-> prepared,
   stepped |-> FALSE]

(* dataview.rs:197-226 *)
Executed(d, query, c, prep) ==
  LET pass  == Joined(d, prep, Statement(c.sql), c.params)
      each  == SetToSeq(pass)
      rows  == IF prep.group
               THEN SetToSeq({x.n.v : x \in pass})
               ELSE [i \in DOMAIN each |-> each[i].n.v]
      limited == IF prep.limit >= 0 /\ prep.limit < Len(rows)
                 THEN SubSeq(rows, 1, prep.limit) ELSE rows
  IN  [ok |-> TRUE, err |-> "",
       result |-> [result_type |-> query.query_type,
                   columns |-> IF query.query_type = "TABLE" THEN Some(query.fields)
                               ELSE None,
                   rows |-> [i \in DOMAIN limited |-> extract_row(limited[i], query.fields)],
                   error |-> None, execution_time |-> None],
       compiled |-> TRUE, sql |-> c.sql, params |-> c.params, prepared |-> TRUE,
       stepped |-> TRUE]

Bound(d, query, c, prep) ==
  IF ~prep.ok THEN Failed("SQL prepare error", c, TRUE)
  ELSE IF prep.nparams # Len(c.params) THEN Failed("Query error", c, TRUE)
  ELSE Executed(d, query, c, prep)

Compiled(d, query, c) ==
  IF ~c.ok THEN Failed(c.err, c, FALSE) ELSE Bound(d, query, c, sqlite_prepare(c.sql))

(* dataview.rs:99-226 *)
build_and_execute(d, query) == Compiled(d, query, CompiledQuery(query))

(* dataview.rs:87-97 *)
Timed(r) == IF r.ok THEN [r EXCEPT !.result.execution_time = Some("elapsed")] ELSE r
execute_query(d, query) == Timed(build_and_execute(d, query))

(***************************************************************************)
(* The queries the model executes                                          *)
(***************************************************************************)
Comparison(field, operator, value) ==
  SerializedCondition("comparison", Some(field), Some(operator), Some(value), None)
Branch(condition_type, conditions) ==
  SerializedCondition(condition_type, None, None, None, Some(conditions))

(* A front-matter key that closes the quoted JSON path and goes on in SQL. *)
QuotedField ==
  <<"x", "'", ")", "OR", "1", "=", "1", "OR", "json_extract", "(", "n.frontmatter", ",",
    "'", "$.", "y">>

StatusDone   == Comparison(<<"status">>, "=", VString(<<"done">>))
TaggedBlue   == Comparison(<<"file.tags">>, "=", VString(<<"blue">>))
ArchivedTrue == Comparison(<<"archived">>, "=", VBool(TRUE))

(* A front-matter key that closes the quoted JSON path, goes on in SQL and  *)
(* comments out the rest of the statement.                                 *)
CommentingField == <<"x", "'", ")", "=", "?", "OR", "1", "=", "1", "--">>

GoodLeaves ==
  {StatusDone, TaggedBlue, ArchivedTrue,
   Comparison(<<"status">>, "=", VString(<<"x", "'", ";", "--">>)),
   Comparison(<<"status">>, "!=", VString(<<"done">>)),
   Comparison(<<"title">>, "contains", VString(<<"home">>)),
   Comparison(<<"title">>, "CONTAINS", VString(<<"%">>)),
   Comparison(<<"archived">>, "=", VString(<<"true">>)),
   Comparison(<<"file.ctime">>, ">=", VNumber(0)),
   Comparison(<<"file.folder">>, "=", VString(<<"notes">>)),
   Comparison(QuotedField, "=", VString(<<"z">>))}

NoValue    == SerializedCondition("comparison", Some(<<"title">>), Some("="), None, None)
NoOperator == SerializedCondition("comparison", Some(<<"title">>), None, None, None)
NoField    == SerializedCondition("comparison", None, Some("="), Some(VString(<<"a">>)), None)
BadOperator == Comparison(<<"title">>, "~=", VString(<<"a">>))

BadLeaves ==
  {NoValue, NoOperator, NoField, BadOperator,
   SerializedCondition("and", None, None, None, None),
   SerializedCondition("or", None, None, None, None),
   SerializedCondition("not", None, None, None, None)}

Few == {StatusDone, TaggedBlue, ArchivedTrue}
FewBad == {NoValue, BadOperator}

Conditions ==
  GoodLeaves \cup BadLeaves
  \cup {Branch(t, <<a, b>>) : t \in {"and", "or"}, a \in Few, b \in Few \cup FewBad}
  \cup {Branch("not", <<a>>) : a \in Few \cup FewBad}
  \cup {Branch("not", <<a, b>>) : a \in {StatusDone}, b \in FewBad \cup {TaggedBlue}}
  \cup {Branch("and", <<>>), Branch("or", <<>>), Branch("not", <<>>)}
  \cup {Branch("and", <<a, Branch("not", <<Branch("or", <<a, b>>)>>)>>)
          : a \in {StatusDone}, b \in FewBad \cup {TaggedBlue}}

SourceLists ==
  {<<FromSource("folder", <<"\"", "notes", "/", "\"">>)>>,
   <<FromSource("folder", <<"x", "'", "%">>)>>,
   <<FromSource("tag", <<"#", "blue">>)>>,
   <<FromSource("tag", <<"#", "red">>)>>,
   <<FromSource("link", <<"[", "[", "b", "]", "]">>)>>,
   <<FromSource("link", <<"[", "[", "Home", "]", "]">>)>>,
   <<FromSource("folder", <<"notes">>), FromSource("link", <<"b">>)>>,
   <<FromSource("outgoing", <<"b">>)>>}

Queries ==
  {SerializedQuery("LIST", <<>>, <<>>, Some(c), <<>>, None) : c \in Conditions}
  \cup {SerializedQuery("TABLE", << <<"status">>, <<"file.name">> >>, s, w, <<>>, None)
          : s \in SourceLists \cup {<<>>}, w \in {None, Some(StatusDone)}}
  \cup {SerializedQuery("LIST", <<>>, <<FromSource("tag", <<"#", t>>)>>,
                        Some(Comparison(CommentingField, "=", VString(<<"z">>))), <<>>, None)
          : t \in {"red", "blue"}}
  \cup {SerializedQuery("LIST", <<>>, <<>>, None,
                        <<SortClause(<<"title">>, "desc"), SortClause(<<"status">>, "up")>>,
                        Some(l)) : l \in {0, 1, 2}}

NoAnswer ==
  [query |-> None, pending |-> None, ok |-> TRUE, err |-> "",
   result |-> [result_type |-> "LIST", columns |-> None, rows |-> <<>>, error |-> None,
               execution_time |-> None],
   compiled |-> FALSE, sql |-> <<>>, params |-> <<>>, prepared |-> FALSE,
   stepped |-> FALSE]

(***************************************************************************)
(* Specification                                                           *)
(***************************************************************************)
Init ==
  /\ disk = [p \in Paths |-> NoFile]
  /\ now = 0
  /\ db = EmptyDb
  /\ faults = 0
  /\ vault = Idle
  /\ base = NoBase
  /\ last = [op |-> "open_vault_db", by |-> "open_vault", path |-> NoPath,
             from |-> NoPath, ok |-> TRUE, text |-> 0, was |-> 0, again |-> FALSE,
             clean |-> FALSE, count |-> 0, purged |-> FALSE,
             after_abort |-> FALSE, after_run |-> FALSE]
  /\ dv = NoAnswer
  /\ graph = NoGraph
  /\ ctx = NoCtx
  /\ conn = NoConn
  /\ scan = NoScan
  /\ app = NoApp

(* The notes the editor has open, and what changes outside put in a file.  *)
EditedPaths == {PathA, PathB}
Edits == ({PathA, PathB} \X {1, 2}) \cup {<<PathC, 2>>}

(* The commands of the running application.                                *)
Next ==
  \/ \E p \in EditedPaths, t \in EditTexts : write_note(p, t, ~Exists(disk, p))
  \/ \E p \in Paths : delete_note(p)
  \/ \E p, q \in Paths : rename_note(p, q)
  \/ \E b \in BoardIds, t \in CardTitles : kanban_add_card(b, t)
  \/ \E i \in 1..MaxCards : kanban_delete_card(i)

Spec == Init /\ [][Next]_vars

(* Opening a vault and re-indexing it, while the files change outside.     *)
NextVault ==
  \/ \E e \in Edits : ExternalEdit(e[1], e[2])
  \/ \E p \in Paths : ExternalRemove(p)
  \/ index_vault_begin
  \/ \E p \in Paths : cleanup_deleted_notes(p)
  \/ index_vault_walk
  \/ \E p \in Paths : index_vault_entry(p)
  \/ index_vault_end

SpecVault == Init /\ [][NextVault]_vars

(***************************************************************************)
(* One index_vault run from start to finish with nothing else happening    *)
(* (indexer.rs:86-118): the purge of every indexed path whose file is      *)
(* gone, then index_single_note for every eligible file.                   *)
(***************************************************************************)
RECURSIVE PurgeAll(_, _)
PurgeAll(d, paths) ==
  IF paths = {} THEN d
  ELSE LET p == CHOOSE x \in paths : TRUE
       IN  PurgeAll(RunStmts(d, PurgeStmts(p), 1, 0).db, paths \ {p})

RECURSIVE IndexAll(_, _, _)
IndexAll(d, dk, paths) ==
  IF paths = {} THEN d
  ELSE LET p == CHOOSE x \in paths : TRUE
       IN  IndexAll(index_single_note(d, dk, p, 0).db, dk, paths \ {p})

Uninterrupted(d, dk) ==
  IndexAll(PurgeAll(d, {n.path : n \in {m \in d.notes : ~Exists(dk, m.path)}}),
           dk, {p \in Paths : Exists(dk, p) /\ Eligible(p)})

(***************************************************************************)
(* execute_dataview_query (commands/dataview.rs:10-15) on an indexed vault *)
(***************************************************************************)
(* Queries are put to a vault that has been opened and indexed             *)
(* (vault.rs open_vault runs index_vault before any query can be put).     *)
DvDisks ==
  {[p \in Paths \cup {PathRoot} |->
      IF p = PathA /\ a # 0 THEN [text |-> a, ctime |-> 0, mtime |-> 0]
      ELSE IF p = PathB /\ b # 0 THEN [text |-> b, ctime |-> 0, mtime |-> 0]
      ELSE IF p = PathRoot /\ r # 0 THEN [text |-> r, ctime |-> 0, mtime |-> 0]
      ELSE NoFile]
     : a \in {0} \cup DvTexts, b \in {0} \cup DvTexts, r \in {0, 3}}

(* The index of an opened vault: index_vault over the files under notes/,  *)
(* then index_single_note from write_note for the file under the root.     *)
Opened(dk) ==
  IF Exists(dk, PathRoot)
  THEN index_single_note(Uninterrupted(EmptyDb, dk), dk, PathRoot, 0).db
  ELSE Uninterrupted(EmptyDb, dk)

(* The front end invokes the command: the query is in flight and the      *)
(* answer to the query before it has been taken.                           *)
invoke_dataview_query(query) ==
  /\ ~dv.pending.some
  /\ dv' = [NoAnswer EXCEPT !.pending = Some(query)]
  /\ UNCHANGED <<disk, now, db, faults, vault, base, last, graph, ctx, conn, scan, app>>

(* The handler runs on the query in flight.                                *)
execute_dataview_query ==
  /\ dv.pending.some
  /\ dv' = [query |-> dv.pending, pending |-> None] @@ execute_query(db, dv.pending.v)
  /\ UNCHANGED <<disk, now, db, faults, vault, base, last, graph, ctx, conn, scan, app>>

InitDv ==
  /\ disk \in DvDisks
  /\ now = 0
  /\ db = Opened(disk)
  /\ faults = 0
  /\ vault = Idle
  /\ base = NoBase
  /\ last = [op |-> "index_vault", by |-> "open_vault", path |-> NoPath,
             from |-> NoPath, ok |-> TRUE, text |-> 0, was |-> 0, again |-> FALSE,
             clean |-> FALSE, count |-> 0, purged |-> FALSE,
             after_abort |-> FALSE, after_run |-> FALSE]
  /\ dv = NoAnswer
  /\ graph = NoGraph
  /\ ctx = NoCtx
  /\ conn = NoConn
  /\ scan = NoScan
  /\ app = NoApp

NextDv ==
  \/ \E query \in Queries : invoke_dataview_query(query)
  \/ execute_dataview_query

SpecDv == InitDv /\ [][NextDv]_vars

(***************************************************************************)
(* What the index holds for one note, and what a text says it should hold  *)
(***************************************************************************)
(* The tables that mirror a note's text alone (card_backlinks also depend  *)
(* on the kanban cards).                                                   *)
MirrorTables == {"entities", "tags", "code_blocks", "backlinks", "blocks", "aliases"}

Rows(d, t, id) ==
  IF t \in BagTables
  THEN [r \in {x \in DOMAIN d[t] : Owner(t, x) = id} |-> d[t][r]]
  ELSE {r \in d[t] : Owner(t, r) = id}

BagOfSeq(rows) ==
  [r \in {rows[i] : i \in DOMAIN rows} |-> Cardinality({i \in DOMAIN rows : rows[i] = r})]

(* The facts of an extracted text x as rows of note id: every entity, tag  *)
(* and code block the extractors return, as often as they return it; one   *)
(* backlink per link; per anchor the block written last; each alias once.  *)
FactRows(t, id, x) ==
  CASE t = "entities"    -> BagOfSeq([i \in DOMAIN x.entities |->
                                        WithId(id, x.entities[i], "note_id")])
    [] t = "tags"        -> BagOfSeq([i \in DOMAIN x.tags |->
                                        [note_id |-> id, tag |-> x.tags[i]]])
    [] t = "code_blocks" -> BagOfSeq([i \in DOMAIN x.code_blocks |->
                                        WithId(id, x.code_blocks[i], "note_id")])
    [] t = "backlinks"   -> {WithId(id, x.links[i], "source_id") : i \in DOMAIN x.links}
    [] t = "blocks"      -> {WithId(id, x.blocks[i], "note_id") :
                               i \in {j \in DOMAIN x.blocks :
                                        \A k \in DOMAIN x.blocks :
                                          k > j => x.blocks[k].block_id # x.blocks[j].block_id}}
    [] t = "aliases"     -> {[note_id |-> id, alias |-> x.aliases[i]] : i \in DOMAIN x.aliases}

Mirrors(d, path, text) ==
  \A t \in MirrorTables :
    Rows(d, t, generate_note_id(path)) = FactRows(t, generate_note_id(path), Extracted[text])

NoRowsOf(d, id) ==
  /\ \A n \in d.notes : n.id # id
  /\ \A t \in DerivedTables : Rows(d, t, id) = Rows(EmptyDb, t, id)

(***************************************************************************)
(* Claims                                                                  *)
(***************************************************************************)

(* C1: after any sequence of index_single_note calls for a path, the tag,  *)
(* entity, code-block, backlink, block and alias rows of the note are      *)
(* exactly the facts of the text read by the most recent completed call:   *)
(* nothing of an earlier text survives, nothing of this text is missing.   *)
C1_FullReplace ==
  (last.op = "index_single_note" /\ last.ok) => Mirrors(db, last.path, last.text)

(* A completed call over a note that was indexed with another text.        *)
C1_Reindexed ==
  /\ last.op = "index_single_note" /\ last.by = "write_note" /\ last.ok
  /\ last.was \notin {0, last.text}
  /\ FactRows("tags", generate_note_id(last.path), Extracted[last.was])
       # FactRows("tags", generate_note_id(last.path), Extracted[last.text])

(* C2: index_single_note twice in a row on a path whose content is         *)
(* unchanged leaves every derived table, and the note's content, after the *)
(* second call as after the first; no row is duplicated.                   *)
C2_Idempotent ==
  [][last'.again =>
       /\ \A t \in DerivedTables : db'[t] = db[t]
       /\ Indexed(db', last'.path) = Indexed(db, last'.path)]_vars

(* The second of two completed calls in a row on the same path and text.   *)
C2_Twice == last.again /\ Mirrors(db, last.path, last.text)

(* C3: after remove_note_from_index(path) completes, the index has no Note *)
(* row with that path, and no tag, entity, code-block, backlink,           *)
(* card-backlink, block or alias row of the removed note's id.             *)
C3_RemoveLeavesNothing ==
  (last.op = "remove_note_from_index" /\ last.ok) =>
    /\ Indexed(db, last.path) = 0
    /\ NoRowsOf(db, generate_note_id(last.path))

(* A completed removal of a note that was indexed.                         *)
C3_Removed ==
  /\ last.op = "remove_note_from_index" /\ last.ok
  /\ last.was # 0

(* C4: after rename_note(old_path, new_path) succeeds, the note is indexed *)
(* under the id of new_path, which differs from the id of old_path; no     *)
(* Note row or derived row carries the old id; the derived rows of the new *)
(* id are exactly the facts of the file's content.                         *)
C4_RenameMovesIdentity ==
  (last.by = "rename_note" /\ last.op = "index_single_note" /\ last.ok) =>
    /\ generate_note_id(last.path) # generate_note_id(last.from)
    /\ \E n \in db.notes : /\ n.path = last.path
                           /\ n.id = generate_note_id(last.path)
                           /\ n.content = last.text
    /\ disk[last.path].text = last.text
    /\ NoRowsOf(db, generate_note_id(last.from))
    /\ Mirrors(db, last.path, last.text)

(* A successful rename of a note that was indexed under its old path.      *)
C4_Renamed ==
  /\ last.by = "rename_note" /\ last.op = "index_single_note" /\ last.ok
  /\ last.was # 0

(* C5: when index_vault runs to completion with no file changed meanwhile, *)
(* no Note row and no derived row is left for a path whose file is absent, *)
(* and every eligible document has a Note row with its current content and *)
(* derived rows that mirror it.                                            *)
C5_VaultReconciled ==
  (last.op = "index_vault" /\ last.ok /\ last.clean) =>
    \A p \in Paths :
      /\ ~Exists(disk, p) =>
           Indexed(db, p) = 0 /\ NoRowsOf(db, generate_note_id(p))
      /\ (Exists(disk, p) /\ Eligible(p)) =>
           Indexed(db, p) = disk[p].text /\ Mirrors(db, p, disk[p].text)

(* An undisturbed run that purged a note and indexed a file.               *)
C5_PurgedAndIndexed ==
  /\ last.op = "index_vault" /\ last.ok /\ last.clean
  /\ last.purged /\ last.count > 0

(* C6: an index_vault run that completes after an aborted run over the     *)
(* same files leaves the index as one uninterrupted run would have; a run  *)
(* repeated over unchanged files leaves the index unchanged.               *)
C6_VaultConverges ==
  (last.op = "index_vault" /\ last.ok /\ last.clean) =>
    /\ base.set
    /\ db = Uninterrupted(base.db, disk)

(* A run completed after both an aborted and a completed run over the same *)
(* files, with something to index.                                         *)
C6_Rerun ==
  /\ last.op = "index_vault" /\ last.ok /\ last.clean
  /\ last.after_abort /\ last.after_run /\ last.count > 0


(***************************************************************************)
(* Dataview claims, under SpecDv                                           *)
(***************************************************************************)
Asked == dv.query.some
TheQuery == dv.query.v

(* A condition tree with the literal value of every leaf blanked.          *)
RECURSIVE Blank(_)
Blank(c) ==
  [c EXCEPT !.value = IF @.some THEN Some(VNull) ELSE @,
            !.conditions = IF @.some THEN Some([i \in DOMAIN @.v |-> Blank(@.v[i])])
                           ELSE @]

(* A query with every leaf value and every from-source value blanked: two  *)
(* queries of one shape differ in those values only.                       *)
Shape(q) ==
  [q EXCEPT !.from_sources = [i \in DOMAIN @ |-> [@[i] EXCEPT !.value = <<>>]],
            !.where_clause = IF @.some THEN Some(Blank(@.v)) ELSE @]

SqlMeta == {"'", ";", "--", "\"", "%"}
HasMeta(text) == \E i \in DOMAIN text : text[i] \in SqlMeta

(* The statement and parameters each query compiles to.                    *)
Compilations == [q \in Queries |-> CompiledQuery(q)]

(* C7: two queries that differ only in the literal values of their         *)
(* condition leaves and from-source values compile to the same SQL text;   *)
(* the values are carried as bound parameters, as many for each, and      *)
(* the text is the same whatever characters the values contain.            *)
C7_ValuesOnlyBound ==
  Asked =>
    \A q \in Queries :
      Shape(q) = Shape(TheQuery) =>
        \E c \in {Compilations[q]} :
          /\ c.sql = dv.sql
          /\ Len(c.params) = Len(dv.params)

(* C7 witness: a query carrying a value with SQL metacharacters was        *)
(* executed, and another query of the same shape carries other values.     *)
C7_SameShapeOtherValues ==
  /\ Asked /\ dv.ok
  /\ \E i \in DOMAIN dv.params : HasMeta(dv.params[i])
  /\ \E q \in Queries :
       /\ q # TheQuery
       /\ Shape(q) = Shape(TheQuery)
       /\ Compilations[q].params # dv.params

(* Whether a condition tree names the archived flag in some leaf.          *)
RECURSIVE NamesArchived(_)
NamesArchived(c) ==
  \/ c.field.some /\ \E i \in DOMAIN c.field.v : c.field.v[i] \in {"archived", "n.archived"}
  \/ c.conditions.some /\ \E i \in DOMAIN c.conditions.v : NamesArchived(c.conditions.v[i])

RefersToArchived(q) ==
  \/ q.where_clause.some /\ NamesArchived(q.where_clause.v)
  \/ \E i \in DOMAIN q.from_sources :
       \E j \in DOMAIN q.from_sources[i].value :
         q.from_sources[i].value[j] \in {"archived", "n.archived"}

Returned(n) == \E i \in DOMAIN dv.result.rows : dv.result.rows[i].path = PathText(n.path)

(* C8: a query whose sources and condition tree make no reference to the   *)
(* archived flag never returns a row for a note whose archived flag is     *)
(* set.                                                                    *)
C8_ArchivedNeverReturned ==
  (Asked /\ ~RefersToArchived(TheQuery)) =>
    \A n \in db.notes : n.archived => ~Returned(n)

(* A query whose condition tree is one leaf selecting the notes whose      *)
(* archived field is true.                                                 *)
SelectsArchived(q) ==
  /\ q.from_sources = <<>>
  /\ q.limit = None
  /\ q.where_clause \in {Some(ArchivedTrue),
                         Some(Comparison(<<"archived">>, "=", VString(<<"true">>)))}

(* C9: a query whose condition tree selects the notes whose archived       *)
(* field is true returns the notes whose archived flag is set.             *)
C9_OverrideReturnsArchived ==
  (Asked /\ SelectsArchived(TheQuery)) =>
    \A n \in db.notes : n.archived => Returned(n)

KnownOperators == {"=", "!=", ">", "<", ">=", "<=", "CONTAINS", "STARTSWITH", "ENDSWITH"}

(* A node missing a required part or carrying an operator outside the      *)
(* known set; fold says whether the operator is upper-cased before it is   *)
(* looked up.                                                              *)
Malformed(c, fold) ==
  \/ /\ c.condition_type = "comparison"
     /\ \/ ~c.field.some
        \/ ~c.operator.some
        \/ ~c.value.some
        \/ c.operator.some
           /\ (IF fold THEN Upper(c.operator.v) ELSE c.operator.v) \notin KnownOperators
  \/ c.condition_type \in {"and", "or", "not"} /\ ~c.conditions.some

RECURSIVE MalformedAtAnyDepth(_, _)
MalformedAtAnyDepth(c, fold) ==
  \/ Malformed(c, fold)
  \/ /\ c.condition_type \in {"and", "or", "not"}
     /\ c.conditions.some
     /\ \E i \in DOMAIN c.conditions.v : MalformedAtAnyDepth(c.conditions.v[i], fold)

(* The nodes compilation looks at: every child of and/or, the first child  *)
(* of not.                                                                 *)
RECURSIVE MalformedWhereCompiled(_, _)
MalformedWhereCompiled(c, fold) ==
  \/ Malformed(c, fold)
  \/ /\ c.condition_type \in {"and", "or"}
     /\ c.conditions.some
     /\ \E i \in DOMAIN c.conditions.v : MalformedWhereCompiled(c.conditions.v[i], fold)
  \/ /\ c.condition_type = "not"
     /\ c.conditions.some
     /\ c.conditions.v # <<>>
     /\ MalformedWhereCompiled(c.conditions.v[1], fold)

ErrorAndNothingRun ==
  /\ dv.result.error.some
  /\ dv.result.rows = <<>>
  /\ ~dv.prepared
  /\ ~dv.stepped

(* C10 as stated: a malformed node at any depth of the condition tree, or  *)
(* an operator outside the known set as written, gives an error result     *)
(* with zero rows and no statement executed; and error set implies rows    *)
(* empty.                                                                  *)
C10_MalformedAnywhereIsError ==
  Asked =>
    /\ (TheQuery.where_clause.some /\ MalformedAtAnyDepth(TheQuery.where_clause.v, FALSE))
         => ErrorAndNothingRun
    /\ dv.result.error.some => dv.result.rows = <<>>

(* C10 amended: a malformed node where compilation looks (every child of   *)
(* and/or, the first child of not), with operators looked up after         *)
(* upper-casing, gives an error result with zero rows and no statement     *)
(* prepared or executed; and error set implies rows empty.                 *)
C10_MalformedWhereCompiledIsError ==
  Asked =>
    /\ (TheQuery.where_clause.some /\ MalformedWhereCompiled(TheQuery.where_clause.v, TRUE))
         => ErrorAndNothingRun
    /\ dv.result.error.some => dv.result.rows = <<>>

(* C10 witness: a malformed leaf below two branches was reached by         *)
(* compilation and the call returned an error with nothing run.            *)
C10_DeepMalformedRejected ==
  /\ Asked
  /\ TheQuery.where_clause.some
  /\ \E c \in {TheQuery.where_clause.v} :
       /\ c.condition_type = "and"
       /\ ~Malformed(c, TRUE)
       /\ \A i \in DOMAIN c.conditions.v : ~Malformed(c.conditions.v[i], TRUE)
       /\ MalformedWhereCompiled(c, TRUE)
  /\ ErrorAndNothingRun
  /\ db.notes # {}

(* Whether the query joins the tag relation: a tag source, or a condition  *)
(* on file.tags / tags.                                                    *)
RECURSIVE OnTags(_)
OnTags(c) ==
  \/ c.field.some /\ c.field.v \in {<<"file.tags">>, <<"tags">>}
  \/ c.conditions.some /\ \E i \in DOMAIN c.conditions.v : OnTags(c.conditions.v[i])

ReferencesTags(q) ==
  \/ \E i \in DOMAIN q.from_sources : q.from_sources[i].source_type = "tag"
  \/ q.where_clause.some /\ OnTags(q.where_clause.v)

(* C11: a query with a tag source or a condition on file.tags / tags       *)
(* returns each note at most once, whatever tag rows the notes hold.       *)
C11_OneRowPerNote ==
  (Asked /\ ReferencesTags(TheQuery)) =>
    \A i, j \in DOMAIN dv.result.rows :
      dv.result.rows[i].path = dv.result.rows[j].path => i = j


C17_FailedCallLeavesNoteAsBefore ==
  (last.op = "index_single_note" /\ last.by = "write_note" /\ ~last.ok) =>
    /\ Indexed(db, last.path) = last.was
    /\ IF last.was = 0
       THEN NoRowsOf(db, generate_note_id(last.path))
       ELSE Mirrors(db, last.path, last.was)


(* C19: every row execute_query returns carries a value for each of        *)
(* file.name, file.path, file.ctime, file.mtime and file.folder, for every *)
(* note path (also one with no folder part) and every projected field      *)
(* list.                                                                   *)
StandardFields ==
  {<<"file.name">>, <<"file.path">>, <<"file.ctime">>, <<"file.mtime">>, <<"file.folder">>}

C19_StandardFieldsPopulated ==
  \A i \in DOMAIN dv.result.rows : StandardFields \subseteq DOMAIN dv.result.rows[i].values


(***************************************************************************)
(* The link graph (db/search.rs) and the resolution of a reference         *)
(* (commands/notes.rs, db/mod.rs).  The statements of these functions      *)
(* compare link targets, paths, titles and aliases character by character  *)
(* (=, LIKE, HashSet::contains), so here a string is the sequence of its   *)
(* characters.  A word that is no target, path, title or alias of the      *)
(* model stays one opaque character.                                       *)
(***************************************************************************)
Chars(s) ==
  CASE s = "notes"      -> <<"n", "o", "t", "e", "s">>
    [] s = "inbox"      -> <<"i", "n", "b", "o", "x">>
    [] s = "md"         -> <<"m", "d">>
    [] s = "Home"       -> <<"H", "o", "m", "e">>
    [] s = "Alpha"      -> <<"A", "l", "p", "h", "a">>
    [] s = "Beta"       -> <<"B", "e", "t", "a">>
    [] s = "notes/a.md" -> <<"n", "o", "t", "e", "s", "/", "a", ".", "m", "d">>
    [] OTHER            -> <<s>>

LowerChar(c) ==
  CASE c = "H" -> "h" [] c = "A" -> "a" [] c = "B" -> "b" [] OTHER -> c

(* str::to_lowercase, SQL LOWER() and the case folding of LIKE.            *)
to_lowercase(cs) == [i \in DOMAIN cs |-> LowerChar(cs[i])]

RECURSIVE Flatten(_)
Flatten(xs) == IF xs = <<>> THEN <<>> ELSE Chars(Head(xs)) \o Flatten(Tail(xs))

(* notes.path as the string that is stored.                                *)
PathChars(path) == Flatten(PathText(path))

DotMd == <<".", "m", "d">>
NotesSlash == <<"n", "o", "t", "e", "s", "/">>

(* x LIKE '%' || body, and x LIKE '%' || body || '%', for a body without   *)
(* wildcard characters; LIKE ignores the case of ASCII letters.            *)
LikeEndsWith(x, body) ==
  /\ Len(body) <= Len(x)
  /\ SubSeq(to_lowercase(x), Len(x) - Len(body) + 1, Len(x)) = to_lowercase(body)

LikeContains(x, body) ==
  \E i \in 1..(Len(x) - Len(body) + 1) :
    SubSeq(to_lowercase(x), i, i + Len(body) - 1) = to_lowercase(body)

(* SQL replace(x, pat, ''): every occurrence of pat removed, left to right. *)
RECURSIVE Removed(_, _)
Removed(x, pat) ==
  IF Len(x) < Len(pat) THEN x
  ELSE IF SubSeq(x, 1, Len(pat)) = pat
       THEN Removed(SubSeq(x, Len(pat) + 1, Len(x)), pat)
       ELSE <<Head(x)>> \o Removed(Tail(x), pat)

(* FROM backlinks b JOIN notes n ON b.source_id = n.id                     *)
JoinedLinks(d) == {b \in d.backlinks : \E n \in d.notes : n.id = b.source_id}

(* search.rs:489-524.  An answer row is named by the backlinks row it was  *)
(* made from.                                                              *)
db_get_backlinks(d, note_path) ==
  {b \in JoinedLinks(d) :
     \/ Chars(b.target_path) = PathChars(note_path)
     \/ LikeEndsWith(Chars(b.target_path), Chars(note_path.stem))}

(* search.rs:653-687 *)
db_get_orphan_notes(d) ==
  {n \in d.notes :
     /\ ~\E b \in d.backlinks : b.source_id = n.id
     /\ ~\E b2 \in JoinedLinks(d) :
          \/ Chars(b2.target_path) = PathChars(n.path)
          \/ LikeContains(Chars(b2.target_path),
                          Removed(Removed(PathChars(n.path), NotesSlash), DotMd))}

(* search.rs:690-755 *)
target_exists(d, target_ref) ==
  LET note_paths == {PathChars(n.path) : n \in d.notes}
      filenames  == {to_lowercase(Chars(n.path.stem)) : n \in d.notes}
  IN  \/ target_ref \in note_paths
      \/ NotesSlash \o target_ref \o DotMd \in note_paths
      \/ target_ref \o DotMd \in note_paths
      \/ NotesSlash \o target_ref \in note_paths
      \/ to_lowercase(target_ref) \in filenames

db_get_broken_links(d) ==
  {b \in JoinedLinks(d) : ~target_exists(d, Chars(b.target_path))}

(* The strings of a note's content: of each line its own text and the      *)
(* text of its lexemes.                                                    *)
ContentStrings(text) ==
  UNION {{Texts[text][i].v} \cup {Texts[text][i].xs[j].v : j \in DOMAIN Texts[text][i].xs}
           : i \in DOMAIN Texts[text]}

(* notes_fts MATCH '"title"': an entry whose title or content has the      *)
(* title as a token (unicode61 folds case).                                *)
FtsMatch(e, title) ==
  \E w \in {e.title} \cup ContentStrings(e.content) :
    to_lowercase(Chars(w)) = to_lowercase(Chars(title))

(* content_lower.find(&title_lower) is Some.                               *)
Found(content, title_lower) ==
  \E w \in ContentStrings(content) : LikeContains(Chars(w), title_lower)

(* search.rs:921-1027.  A row is the pair of the note and the note that    *)
(* mentions it.                                                            *)
is_linked(d, note, other_id) ==
  LET existing_links == {<<b.source_id, to_lowercase(Chars(b.target_path))>> : b \in d.backlinks}
  IN  \/ <<other_id, to_lowercase(Chars(note.title))>> \in existing_links
      \/ <<other_id, to_lowercase(Chars(note.path.stem))>> \in existing_links
      \/ <<other_id, to_lowercase(PathChars(note.path))>> \in existing_links

db_get_unlinked_mentions(d) ==
  {[note_id |-> note.id, mentioned_in_id |-> other.id] :
     <<note, other>> \in
       {pair \in d.notes \X d.notes :
          /\ Len(Chars(pair[1].title)) >= 3
          /\ \E e \in d.notes_fts : e.rowid = pair[2].id /\ FtsMatch(e, pair[1].title)
          /\ pair[2].id # pair[1].id
          /\ ~is_linked(d, pair[1], pair[2].id)
          /\ Found(pair[2].content, to_lowercase(Chars(pair[1].title)))}}

(* notes.rs:616-660: the path a reference resolves to.  LIMIT 1 without    *)
(* ORDER BY returns any one of the matching rows, so the result is the set *)
(* of paths the call may return; the empty set is None.                    *)
resolve_note_path(d, dk, reference) ==
  LET candidates == <<reference, reference \o DotMd, NotesSlash \o reference,
                      NotesSlash \o reference \o DotMd>>
      is_file(c) == \E p \in DOMAIN dk : Exists(dk, p) /\ PathChars(p) = c
      hits    == {i \in 1..4 : is_file(candidates[i])}
      titled  == {n \in d.notes : to_lowercase(Chars(n.title)) = to_lowercase(reference)}
      partial == {n \in d.notes :
                    LikeEndsWith(PathChars(n.path), <<"/">> \o reference \o DotMd)}
  IN  IF hits # {} THEN {candidates[CHOOSE i \in hits : \A j \in hits : i <= j]}
      ELSE IF titled # {} THEN {PathChars(n.path) : n \in titled}
      ELSE {PathChars(n.path) : n \in partial}

(* mod.rs:133-150 *)
resolve_note_by_alias(d, alias) ==
  {PathChars(n.path) :
     n \in {m \in d.notes : \E a \in d.aliases :
              a.note_id = m.id /\ to_lowercase(Chars(a.alias)) = to_lowercase(alias)}}

(* commands/db.rs:24-69: the commands put the query to the index.          *)
Answer(op, path, rows) == [op |-> op, path |-> path, rows |-> rows]

get_backlinks(note_path) ==
  /\ graph' = Answer("get_backlinks", note_path, db_get_backlinks(db, note_path))
  /\ UNCHANGED <<disk, now, db, faults, vault, base, last, dv, ctx, conn, scan, app>>

get_orphan_notes ==
  /\ graph' = Answer("get_orphan_notes", NoPath, db_get_orphan_notes(db))
  /\ UNCHANGED <<disk, now, db, faults, vault, base, last, dv, ctx, conn, scan, app>>

get_broken_links ==
  /\ graph' = Answer("get_broken_links", NoPath, db_get_broken_links(db))
  /\ UNCHANGED <<disk, now, db, faults, vault, base, last, dv, ctx, conn, scan, app>>

get_unlinked_mentions ==
  /\ graph' = Answer("get_unlinked_mentions", NoPath, db_get_unlinked_mentions(db))
  /\ UNCHANGED <<disk, now, db, faults, vault, base, last, dv, ctx, conn, scan, app>>

(* The vaults the graph is asked about: two files under notes/, indexed.   *)
GraphTexts == {1, 3, 4, 5}
GraphPaths == {PathA, PathB}
GraphDisks ==
  {[p \in Paths |-> IF p = PathA /\ a # 0 THEN [text |-> a, ctime |-> 0, mtime |-> 0]
                    ELSE IF p = PathB /\ b # 0 THEN [text |-> b, ctime |-> 0, mtime |-> 0]
                    ELSE NoFile]
     : a \in {0} \cup GraphTexts, b \in {0} \cup GraphTexts}

InitGraph ==
  /\ disk \in GraphDisks
  /\ now = 0
  /\ db = Uninterrupted(EmptyDb, disk)
  /\ faults = 0
  /\ vault = Idle
  /\ base = NoBase
  /\ last = [op |-> "index_vault", by |-> "open_vault", path |-> NoPath,
             from |-> NoPath, ok |-> TRUE, text |-> 0, was |-> 0, again |-> FALSE,
             clean |-> FALSE, count |-> 0, purged |-> FALSE,
             after_abort |-> FALSE, after_run |-> FALSE]
  /\ dv = NoAnswer
  /\ graph = NoGraph
  /\ ctx = NoCtx
  /\ conn = NoConn
  /\ scan = NoScan
  /\ app = NoApp

NextGraph ==
  \/ \E p \in GraphPaths : get_backlinks(p)
  \/ get_orphan_notes
  \/ get_broken_links
  \/ get_unlinked_mentions

SpecGraph == InitGraph /\ [][NextGraph]_vars

(***************************************************************************)
(* Link graph claims, under SpecGraph                                      *)
(***************************************************************************)
(* The notes a reference resolves to under the rules of resolution: those  *)
(* of resolve_note_path (exact path, with the extension, under notes/,     *)
(* title, file name) and the alias.                                        *)
Resolutions(reference) ==
  resolve_note_path(db, disk, reference) \cup resolve_note_by_alias(db, reference)

(* C12: get_broken_links returns a backlinks row if and only if its target *)
(* resolves to no note under any rule; a link whose target is the title or *)
(* an alias of a note is never returned.                                   *)
C12_BrokenIffUnresolvable ==
  graph.op = "get_broken_links" =>
    \A b \in JoinedLinks(db) :
      b \in graph.rows <=> Resolutions(Chars(b.target_path)) = {}

(* C13: get_orphan_notes returns exactly the notes that have no outgoing   *)
(* backlinks row and to which no other note's link resolves.               *)
C13_OrphansExact ==
  graph.op = "get_orphan_notes" =>
    \A n \in db.notes :
      n \in graph.rows <=>
        /\ ~\E b \in db.backlinks : b.source_id = n.id
        /\ ~\E b \in JoinedLinks(db) :
             /\ b.source_id # n.id
             /\ PathChars(n.path) \in Resolutions(Chars(b.target_path))

(* C14: get_backlinks(path) returns a backlinks row if and only if the     *)
(* row's target resolves, by the rules of resolve_note_path, to the note   *)
(* at path.                                                                *)
C14_BacklinksIffResolves ==
  graph.op = "get_backlinks" =>
    \A b \in JoinedLinks(db) :
      b \in graph.rows <=>
        PathChars(graph.path) \in resolve_note_path(db, disk, Chars(b.target_path))

(* C20: get_unlinked_mentions reports no pair of a note with itself, and   *)
(* no pair whose mentioning note holds a link that resolves to the note by *)
(* path, file name, title or alias.                                        *)
C20_NoMentionWhereLinked ==
  graph.op = "get_unlinked_mentions" =>
    \A r \in graph.rows :
      /\ r.mentioned_in_id # r.note_id
      /\ ~\E b \in db.backlinks : \E n \in db.notes :
           /\ b.source_id = r.mentioned_in_id
           /\ n.id = r.note_id
           /\ PathChars(n.path) \in Resolutions(Chars(b.target_path))


(***************************************************************************)
(* Context windows (indexer.rs:10-34, 633-655, 749-756; search.rs:553-586, *)
(* 1002-1011).  For the cut of a window only the byte offsets of a         *)
(* content's character boundaries matter, so a content is n1 characters of *)
(* w bytes each, then a single-byte characters, then n2 characters of w    *)
(* bytes: multi-byte characters on both sides of an ASCII stretch in which *)
(* a link can be matched.                                                  *)
(***************************************************************************)
ByteLen(s) == s.w * s.n1 + s.a + s.w * s.n2

is_char_boundary(s, idx) ==
  \/ idx = 0
  \/ idx = ByteLen(s)
  \/ idx < s.w * s.n1 /\ idx % s.w = 0
  \/ idx >= s.w * s.n1 /\ idx <= s.w * s.n1 + s.a
  \/ idx > s.w * s.n1 + s.a /\ idx < ByteLen(s) /\ (idx - s.w * s.n1 - s.a) % s.w = 0

(* indexer.rs:11-21 = search.rs:7-17 *)
RECURSIVE floor_loop(_, _)
floor_loop(s, idx) ==
  IF idx > 0 /\ ~is_char_boundary(s, idx) THEN floor_loop(s, idx - 1) ELSE idx

floor_char_boundary_unadjusted(s, index) ==
  IF index >= ByteLen(s) THEN ByteLen(s) ELSE index
floor_char_boundary(s, index) ==
  IF index >= ByteLen(s) THEN ByteLen(s) ELSE floor_loop(s, index)

(* indexer.rs:24-34 = search.rs:20-30 *)
RECURSIVE ceil_loop(_, _)
ceil_loop(s, idx) ==
  IF idx < ByteLen(s) /\ ~is_char_boundary(s, idx) THEN ceil_loop(s, idx + 1) ELSE idx

ceil_char_boundary(s, index) ==
  IF index >= ByteLen(s) THEN ByteLen(s) ELSE ceil_loop(s, index)

saturating_sub(x, y) == IF x >= y THEN x - y ELSE 0
Min(x, y) == IF x <= y THEN x ELSE y

(* The cut around a match at byte pos of len bytes, radius bytes each way: *)
(* floor_char_boundary(content, pos.saturating_sub(radius)) and            *)
(* ceil_char_boundary(content, (pos + len + radius).min(content.len())).   *)
Window(op, s, pos, len, radius) ==
  [op |-> op, content |-> s, pos |-> pos, len |-> len,
   start |-> floor_char_boundary(s, saturating_sub(pos, radius)),
   end |-> ceil_char_boundary(s, Min(pos + len + radius, ByteLen(s)))]

(* The contents, and the lengths of what is matched in them.               *)
MaxSkew == 2
WideRuns == {0, 1, 8, 19}
Contents ==
  {[w |-> w, n1 |-> n1, a |-> a, n2 |-> n2] :
     w \in {2, 3, 4}, n1 \in WideRuns, a \in {5, 6}, n2 \in WideRuns}
LinkLens == {5, 6}
QueryLens == {1, 3, 4}

(* content.find(&cap[0]): the match lies in the content, here in its       *)
(* single-byte stretch.                                                    *)
LinkAt(s, i, len) == i >= s.w * s.n1 /\ i + len <= s.w * s.n1 + s.a

(* content_lower.find(..): an offset into the lower-cased content, whose   *)
(* characters may take more or fewer bytes than those of the content, so   *)
(* it may be any offset up to MaxSkew bytes past the content's end.        *)
LowerOffsets(s) == 0..(ByteLen(s) + MaxSkew)

(* The content and the match a window is asked for.                        *)
Asking(s, pos, len) == [NoCtx EXCEPT !.content = s, !.pos = pos, !.len = len]
Unanswered == ctx.op = "none"

(* indexer.rs:633-655 *)
extract_links_context ==
  /\ Unanswered
  /\ ctx.len \in LinkLens /\ LinkAt(ctx.content, ctx.pos, ctx.len)
  /\ ctx' = Window("extract_links", ctx.content, ctx.pos, ctx.len, 30)
  /\ UNCHANGED <<disk, now, db, faults, vault, base, last, dv, graph, conn, scan, app>>

(* indexer.rs:749-756 *)
extract_card_links_context ==
  /\ Unanswered
  /\ ctx.len \in LinkLens /\ LinkAt(ctx.content, ctx.pos, ctx.len)
  /\ ctx' = Window("extract_card_links", ctx.content, ctx.pos, ctx.len, 30)
  /\ UNCHANGED <<disk, now, db, faults, vault, base, last, dv, graph, conn, scan, app>>

(* search.rs:553-575, called with max_len 100 and 150 (search.rs:86, 150)  *)
create_snippet(max_len) ==
  /\ Unanswered
  /\ ctx.len \in QueryLens
  /\ ctx' = Window("create_snippet", ctx.content, ctx.pos, ctx.len, max_len \div 2)
  /\ UNCHANGED <<disk, now, db, faults, vault, base, last, dv, graph, conn, scan, app>>

(* search.rs:576-584: no match, the beginning of the content.              *)
create_snippet_unmatched(max_len) ==
  /\ Unanswered
  /\ ctx.len \in QueryLens /\ ctx.pos = 0
  /\ ctx' = [ctx EXCEPT !.op = "create_snippet", !.len = 0, !.start = 0,
                        !.end = ceil_char_boundary(ctx.content,
                                                   Min(max_len, ByteLen(ctx.content)))]
  /\ UNCHANGED <<disk, now, db, faults, vault, base, last, dv, graph, conn, scan, app>>

(* search.rs:1002-1011 *)
get_unlinked_mentions_context ==
  /\ Unanswered
  /\ ctx.len \in QueryLens /\ ctx.len >= 3
  /\ ctx' = Window("get_unlinked_mentions", ctx.content, ctx.pos, ctx.len, 40)
  /\ UNCHANGED <<disk, now, db, faults, vault, base, last, dv, graph, conn, scan, app>>

InitCtx ==
  /\ disk = [p \in Paths |-> NoFile]
  /\ now = 0
  /\ db = EmptyDb
  /\ faults = 0
  /\ vault = Idle
  /\ base = NoBase
  /\ last = [op |-> "open_vault_db", by |-> "open_vault", path |-> NoPath,
             from |-> NoPath, ok |-> TRUE, text |-> 0, was |-> 0, again |-> FALSE,
             clean |-> FALSE, count |-> 0, purged |-> FALSE,
             after_abort |-> FALSE, after_run |-> FALSE]
  /\ dv = NoAnswer
  /\ graph = NoGraph
  /\ ctx \in UNION {{Asking(c[1], pos, c[2]) : pos \in LowerOffsets(c[1])} :
                      c \in Contents \X (LinkLens \cup QueryLens)}
  /\ conn = NoConn
  /\ scan = NoScan
  /\ app = NoApp

NextCtx ==
  \/ extract_links_context
  \/ extract_card_links_context
  \/ \E max_len \in {100, 150} : create_snippet(max_len)
  \/ \E max_len \in {100, 150} : create_snippet_unmatched(max_len)
  \/ get_unlinked_mentions_context

SpecCtx == InitCtx /\ [][NextCtx]_vars

(* C15: for every content and every match position, the window            *)
(* [start, end) that extract_links, extract_card_links, create_snippet and *)
(* get_unlinked_mentions cut has start <= end <= the content's length,     *)
(* with start and end on character boundaries.                             *)
C15_WindowOnBoundaries ==
  ~Unanswered =>
    /\ ctx.start <= ctx.end
    /\ ctx.end <= ByteLen(ctx.content)
    /\ is_char_boundary(ctx.content, ctx.start)
    /\ is_char_boundary(ctx.content, ctx.end)

(* A snippet around an offset taken from the lower-cased content, where    *)
(* both ends of the raw cut fall inside multi-byte characters and so were  *)
(* moved, and the window is neither empty nor the whole content.           *)
C15_BothEndsMoved ==
  /\ ctx.op = "create_snippet"
  /\ ctx.len > 0
  /\ ~is_char_boundary(ctx.content, ctx.pos)
  /\ \E radius \in {50, 75} :
       /\ ctx.start < saturating_sub(ctx.pos, radius)
       /\ ctx.end > ctx.pos + ctx.len + radius
  /\ 0 < ctx.start /\ ctx.start < ctx.end /\ ctx.end < ByteLen(ctx.content)


(***************************************************************************)
(* with_db (db/mod.rs:67-78): the connection lives in a                    *)
(* Mutex<DatabaseState>; a closure runs while the guard returned by        *)
(* state.lock() is alive.  Two threads: one indexes a note                 *)
(* (index_single_note, indexer.rs:160-275), one runs a query of two        *)
(* SELECTs in one closure (get_unlinked_mentions, search.rs:924-947).      *)
(* Each statement is a step, so the steps of the two threads interleave as *)
(* far as the mutex lets them.                                             *)
(***************************************************************************)
(* mod.rs:72: state.lock() returns when no guard is alive.                 *)
lock_unguarded(c) == TRUE
lock(c) == c.w # "closure" /\ c.r \notin {"notes", "rows"}

LockTexts == {1, 2, 3}

(* notes.rs:139-160, indexer.rs:121-158: the file is written and read,     *)
(* then with_db is called.                                                 *)
index_single_note_call(path, content) ==
  /\ conn.w = "idle"
  /\ disk' = [disk EXCEPT ![path] = Written(path, content)]
  /\ conn' = [conn EXCEPT !.w = "lock", !.path = path]
  /\ UNCHANGED <<now, db, faults, vault, base, last, dv, graph, ctx, scan, app>>

index_single_note_lock ==
  /\ conn.w = "lock"
  /\ lock(conn)
  /\ conn' = [conn EXCEPT !.w = "closure", !.i = 1]
  /\ UNCHANGED <<disk, now, db, faults, vault, base, last, dv, graph, ctx, scan, app>>

(* indexer.rs:160-275: the next statement of the closure; after the last   *)
(* one the closure returns and the guard is dropped.                       *)
index_single_note_stmt ==
  /\ conn.w = "closure"
  /\ db' = Exec(db, IndexStmts(conn.path, disk[conn.path])[conn.i]).db
  /\ conn' = IF conn.i = Len(IndexStmts(conn.path, disk[conn.path]))
             THEN [conn EXCEPT !.w = "idle", !.i = 0]
             ELSE [conn EXCEPT !.i = @ + 1]
  /\ UNCHANGED <<disk, now, faults, vault, base, last, dv, graph, ctx, scan, app>>

(* commands/db.rs:66-69 *)
query_call ==
  /\ conn.r = "idle"
  /\ conn' = [conn EXCEPT !.r = "lock", !.seen = NoSight]
  /\ UNCHANGED <<disk, now, db, faults, vault, base, last, dv, graph, ctx, scan, app>>

query_lock ==
  /\ conn.r = "lock"
  /\ lock(conn)
  /\ conn' = [conn EXCEPT !.r = "notes"]
  /\ UNCHANGED <<disk, now, db, faults, vault, base, last, dv, graph, ctx, scan, app>>

(* search.rs:926-936: SELECT id, path, title FROM notes                    *)
query_notes ==
  /\ conn.r = "notes"
  /\ conn' = [conn EXCEPT !.r = "rows", !.seen.notes = db.notes]
  /\ UNCHANGED <<disk, now, db, faults, vault, base, last, dv, graph, ctx, scan, app>>

(* search.rs:939-947: SELECT source_id, target_path FROM backlinks (and    *)
(* the per-note searches); then the closure returns.                       *)
query_rows ==
  /\ conn.r = "rows"
  /\ conn' = [conn EXCEPT !.r = "idle", !.seen.db = db, !.seen.some = TRUE]
  /\ UNCHANGED <<disk, now, db, faults, vault, base, last, dv, graph, ctx, scan, app>>

NextLock ==
  \/ \E content \in LockTexts : index_single_note_call(PathA, content)
  \/ index_single_note_lock
  \/ index_single_note_stmt
  \/ query_call
  \/ query_lock
  \/ query_notes
  \/ query_rows

SpecLock == Init /\ [][NextLock]_vars

C22_EachTagOnce ==
  (last.op = "index_single_note" /\ last.ok) =>
    /\ \A i, j \in DOMAIN Extracted[last.text].tags :
         Extracted[last.text].tags[i] = Extracted[last.text].tags[j] => i = j
    /\ \A r \in DOMAIN db.tags :
         r.note_id = generate_note_id(last.path) => db.tags[r] = 1

(* The note commands on one path while the file system's clock runs and    *)
(* the file is removed outside the application, so that a file's times     *)
(* differ from those the index holds for its path.                         *)
MaxNow == 2

clock_tick ==
  /\ now < MaxNow
  /\ now' = now + 1
  /\ last' = Last("tick", "external", NoPath, TRUE, 0)
  /\ UNCHANGED <<disk, db, faults, vault, base, dv, graph, ctx, conn, scan, app>>

NextRow ==
  \/ clock_tick
  \/ \E t \in EditTexts : write_note(PathA, t, ~Exists(disk, PathA))
  \/ ExternalRemove(PathA)

SpecRow == Init /\ [][NextRow]_vars

(* C29: a completed index_single_note of a path that has a row in notes    *)
(* leaves the row's id, path and created_at as they were, gives it the     *)
(* title, content, content hash, modified time, front matter and archived  *)
(* flag of the file, and leaves one row for the path.                      *)
C29_UpsertKeepsIdentity ==
  [][\A n \in db.notes :
       (last'.op = "index_single_note" /\ last'.ok /\ last'.path = n.path) =>
         \E m \in db'.notes :
           /\ m.id = n.id /\ m.path = n.path /\ m.created_at = n.created_at
           /\ m = [NoteRow(n.path, disk'[n.path]) EXCEPT !.created_at = n.created_at]
           /\ \A k \in db'.notes : k.path = n.path => k = m]_vars

(* A re-indexed note with changed content whose file was created later     *)
(* than the row: the row kept its created_at.                              *)
C29_RecreatedFileKeepsCreatedAt ==
  /\ last.op = "index_single_note" /\ last.ok
  /\ last.was \notin {0, last.text}
  /\ \E n \in db.notes :
       /\ n.path = last.path
       /\ n.content = last.text
       /\ n.created_at # disk[last.path].ctime
       /\ n.modified_at = disk[last.path].mtime

(***************************************************************************)
(* Code blocks: extract_code_blocks over every text of a few lines.       *)
(***************************************************************************)
MaxLines == 5

ScanLines == {Fence(""), Fence("rust"), Body(<<Tok("word", "x")>>), Body(<<>>)}

ScanTexts == UNION {[1..n -> ScanLines] : n \in 0..MaxLines}

(* indexer.rs:208: index_single_note hands the content to the extractor.   *)
scan_code_blocks ==
  /\ ~scan.done
  /\ scan' = [scan EXCEPT !.done = TRUE,
                          !.blocks = extract_code_blocks(scan.lines)]
  /\ UNCHANGED <<disk, now, db, faults, vault, base, last, dv, graph, ctx, conn, app>>

InitScan ==
  /\ disk = [p \in Paths |-> NoFile]
  /\ now = 0
  /\ db = EmptyDb
  /\ faults = 0
  /\ vault = Idle
  /\ base = NoBase
  /\ last = Last("open_vault_db", "open_vault", NoPath, TRUE, 0)
  /\ dv = NoAnswer
  /\ graph = NoGraph
  /\ ctx = NoCtx
  /\ conn = NoConn
  /\ app = NoApp
  /\ scan \in {[NoScan EXCEPT !.lines = t] : t \in ScanTexts}

NextScan == scan_code_blocks

SpecScan == InitScan /\ [][NextScan]_vars

(* The number of the k-th line of the text that starts with a fence.       *)
KthFence(lines, k) ==
  CHOOSE i \in 1..Len(lines) :
    /\ lines[i].k = "fence"
    /\ Cardinality({j \in 1..i : lines[j].k = "fence"}) = k

(* The lines from..to - 1 joined by newlines.                              *)
RECURSIVE JoinLines(_, _, _)
JoinLines(lines, from, to) ==
  IF from >= to THEN <<>>
  ELSE (IF IsEmptyLine(lines[from]) THEN <<>> ELSE <<from>>)
       \o (IF from + 1 < to THEN <<0>> ELSE <<>>)
       \o JoinLines(lines, from + 1, to)

(* C30: the k-th block runs from the (2k-1)-th fence line to the 2k-th,    *)
(* its content is exactly the lines strictly between the two joined by     *)
(* newlines, the blocks are in line order and do not overlap, and an       *)
(* opening fence without a closing one yields no block.                    *)
C30_BlocksPairFences ==
  scan.done =>
    /\ Len(scan.blocks)
         = Cardinality({i \in 1..Len(scan.lines) : scan.lines[i].k = "fence"}) \div 2
    /\ \A k \in 1..Len(scan.blocks) :
         /\ scan.blocks[k].line_start = KthFence(scan.lines, 2 * k - 1)
         /\ scan.blocks[k].line_end = KthFence(scan.lines, 2 * k)
         /\ scan.blocks[k].language = scan.lines[scan.blocks[k].line_start].v
         /\ scan.blocks[k].content
              = JoinLines(scan.lines, scan.blocks[k].line_start + 1,
                          scan.blocks[k].line_end)
    /\ \A k \in 1..(Len(scan.blocks) - 1) :
         scan.blocks[k].line_end < scan.blocks[k + 1].line_start

(* The same without the content: where the blocks lie.                     *)
C30_BlocksLieBetweenFences ==
  scan.done =>
    /\ Len(scan.blocks)
         = Cardinality({i \in 1..Len(scan.lines) : scan.lines[i].k = "fence"}) \div 2
    /\ \A k \in 1..Len(scan.blocks) :
         /\ scan.blocks[k].line_start = KthFence(scan.lines, 2 * k - 1)
         /\ scan.blocks[k].line_end = KthFence(scan.lines, 2 * k)

(***************************************************************************)
(* Resolution of a reference, as the commands that take a reference do it. *)
(***************************************************************************)
References ==
  {Chars("Alpha"), Chars("Beta"), Chars("Home"), <<"a">>, <<"b">>, <<"z">>,
   Chars("notes/a.md"), NotesSlash \o <<"a">>, <<"a">> \o DotMd}

Resolved(paths) == IF paths = {} THEN {None} ELSE {Some(p) : p \in paths}

(* notes.rs:478-486: the command resolves the reference it is given; what  *)
(* it resolved to is recorded.                                             *)
get_note_content_for_transclusion(path) ==
  /\ \E r \in Resolved(resolve_note_path(db, disk, path)) :
       graph' = Answer("resolve_note_path", NoPath,
                       {[reference |-> path, resolved |-> r]})
  /\ UNCHANGED <<disk, now, db, faults, vault, base, last, dv, ctx, conn, scan, app>>

NextResolve == \E path \in References : get_note_content_for_transclusion(path)

SpecResolve == InitGraph /\ [][NextResolve]_vars

(* The paths each rule of resolution yields for a reference, in the order  *)
(* of the rules: exact relative path, with the extension, under notes/,    *)
(* under notes/ with the extension, title, alias, file name.               *)
RuleMatches(reference) ==
  LET file(c)  == IF \E p \in DOMAIN disk : Exists(disk, p) /\ PathChars(p) = c
                  THEN {c} ELSE {}
  IN  << file(reference),
         file(reference \o DotMd),
         file(NotesSlash \o reference),
         file(NotesSlash \o reference \o DotMd),
         {PathChars(n.path) :
            n \in {m \in db.notes :
                     to_lowercase(Chars(m.title)) = to_lowercase(reference)}},
         resolve_note_by_alias(db, reference),
         {PathChars(n.path) :
            n \in {m \in db.notes :
                     LikeEndsWith(PathChars(m.path), <<"/">> \o reference \o DotMd)}} >>

(* C23: a reference resolves to what the first rule that matches yields,   *)
(* the rules tried in the order exact path, path with the extension,       *)
(* under the notes folder, title, alias, file name; it is unresolved only  *)
(* when no rule matches.                                                   *)
C23_FirstRuleWins ==
  graph.op = "resolve_note_path" =>
    \A row \in graph.rows :
      LET rules == RuleMatches(row.reference)
          hit   == {i \in DOMAIN rules : rules[i] # {}}
      IN  IF hit = {} THEN ~row.resolved.some
          ELSE /\ row.resolved.some
               /\ row.resolved.v \in rules[CHOOSE i \in hit : \A j \in hit : i <= j]

(* The same over the rules resolve_note_path has: without the alias.       *)
C23_FirstRuleWinsButAlias ==
  graph.op = "resolve_note_path" =>
    \A row \in graph.rows :
      LET rules == RuleMatches(row.reference)
          hit   == {i \in DOMAIN rules : rules[i] # {}} \ {6}
      IN  IF hit = {} THEN ~row.resolved.some
          ELSE /\ row.resolved.some
               /\ row.resolved.v \in rules[CHOOSE i \in hit : \A j \in hit : i <= j]

(***************************************************************************)
(* Vault health (db/search.rs get_vault_health) beside the two queries it  *)
(* counts, over indexes left by an edit that ran through or failed at any  *)
(* statement.                                                              *)
(***************************************************************************)
(* search.rs:867-900: SELECT target_path FROM backlinks, filtered as       *)
(* get_broken_links filters, counted.                                      *)
get_broken_links_count_by_path_only(d) ==
  Cardinality({b \in d.backlinks :
                 Chars(b.target_path) \notin {PathChars(n.path) : n \in d.notes}})

get_broken_links_count(d) ==
  Cardinality({b \in d.backlinks : ~target_exists(d, Chars(b.target_path))})

(* search.rs:758-865: the counts of the answer.  most_connected_notes and  *)
(* recently_modified are lists of notes and take no part in the counts.    *)
db_get_vault_health(d) ==
  [total_notes |-> Cardinality(d.notes),
   total_links |-> Cardinality(d.backlinks),
   orphan_count |->
     Cardinality({n \in d.notes :
        /\ ~\E b \in d.backlinks : b.source_id = n.id
        /\ ~\E b2 \in d.backlinks :
             /\ \E n2 \in d.notes : b2.source_id = n2.id
             /\ \/ Chars(b2.target_path) = PathChars(n.path)
                \/ LikeContains(Chars(b2.target_path),
                                Removed(Removed(PathChars(n.path), NotesSlash), DotMd))}),
   broken_link_count |-> get_broken_links_count(d)]

(* commands/db.rs: the command puts the query to the index.                *)
get_vault_health ==
  /\ graph' = Answer("get_vault_health", NoPath, {db_get_vault_health(db)})
  /\ UNCHANGED <<disk, now, db, faults, vault, base, last, dv, ctx, conn, scan, app>>

Edited(dk, p, t) == [dk EXCEPT ![p] = [text |-> t, ctime |-> 0, mtime |-> 0]]

(* A vault that was opened and indexed, and one note of which was then     *)
(* written and indexed, the indexing failing at statement k or not at all. *)
InitHealth ==
  /\ \E dk \in GraphDisks, p \in GraphPaths, t \in GraphTexts :
       /\ disk = Edited(dk, p, t)
       /\ \E k \in 0..Len(IndexStmts(p, Edited(dk, p, t)[p])) :
            /\ db = index_single_note(Uninterrupted(EmptyDb, dk),
                                      Edited(dk, p, t), p, k).db
            /\ faults = IF k > 0 THEN 1 ELSE 0
            /\ last = [op |-> "index_single_note", by |-> "write_note", path |-> p,
                       from |-> NoPath, ok |-> k = 0, text |-> t,
                       was |-> dk[p].text, again |-> FALSE,
                       clean |-> FALSE, count |-> 0, purged |-> FALSE,
                       after_abort |-> FALSE, after_run |-> FALSE]
  /\ now = 0
  /\ vault = Idle
  /\ base = NoBase
  /\ dv = NoAnswer
  /\ graph = NoGraph
  /\ ctx = NoCtx
  /\ conn = NoConn
  /\ scan = NoScan
  /\ app = NoApp

NextHealth ==
  \/ get_vault_health
  \/ get_orphan_notes
  \/ get_broken_links

SpecHealth == InitHealth /\ [][NextHealth]_vars

(* C24: the orphan_count of get_vault_health is the number of notes that   *)
(* get_orphan_notes returns, and its broken_link_count the number of links *)
(* that get_broken_links returns, in every state of the index.             *)
C24_HealthCountsAgree ==
  graph.op = "get_vault_health" =>
    \A h \in graph.rows :
      /\ h.orphan_count = Cardinality(db_get_orphan_notes(db))
      /\ h.broken_link_count = Cardinality(db_get_broken_links(db))

C24_HalfIndexedWithBrokenLinkAndOrphan ==
  /\ graph.op = "get_vault_health"
  /\ ~last.ok
  /\ \E h \in graph.rows : h.orphan_count > 0 /\ h.broken_link_count > 0

(***************************************************************************)
(* Dataview parameters, under SpecDv                                       *)
(***************************************************************************)
(* The query with its link sources put first: in the statement's text the  *)
(* placeholders of the joins stand before those of WHERE, and within each  *)
(* the clauses stand in the order of the sources, so this query's          *)
(* parameters are the clause values in the order of the placeholders.      *)
LinksFirst(query) ==
  [query EXCEPT !.from_sources =
     SelectSeq(@, LAMBDA s : s.source_type = "link")
     \o SelectSeq(@, LAMBDA s : s.source_type # "link")]

(* C26: the i-th bound parameter of the compiled query is the value of the *)
(* clause that emitted the i-th placeholder of the statement, for every    *)
(* combination and order of sources and conditions; for the sources        *)
(* [folder F, link L] the join is matched against L and the path against F.*)
C26_ParamsFollowPlaceholders ==
  (dv.query.some /\ dv.compiled) =>
    /\ dv.sql = CompiledQuery(LinksFirst(dv.query.v)).sql
    /\ dv.params = CompiledQuery(LinksFirst(dv.query.v)).params

(* The same for the queries whose link sources all come first.             *)
C26_ParamsFollowPlaceholdersLinksFirst ==
  (dv.query.some /\ dv.compiled /\ LinksFirst(dv.query.v) = dv.query.v) =>
    /\ dv.sql = CompiledQuery(dv.query.v).sql
    /\ dv.params = CompiledQuery(dv.query.v).params

(***************************************************************************)
(* A dataview query one row of which fails while the rows are iterated     *)
(* (the step of the statement reports an error: storage, a busy database). *)
(***************************************************************************)
(* dataview.rs:201-207: the loop over the rows returns Err at the first    *)
(* row that is an Err; execute_query turns it into DataviewResult::error.  *)
RowError(r) ==
  Failed("Row error", [ok |-> TRUE, sql |-> r.sql, params |-> r.params], TRUE)

RowSkipped(r, failAt) ==
  [r EXCEPT !.result.rows =
     SubSeq(@, 1, failAt - 1) \o SubSeq(@, failAt + 1, Len(@))]

build_and_execute_stepping(d, query, failAt) ==
  LET r == build_and_execute(d, query)
  IN  IF r.ok /\ failAt \in DOMAIN r.result.rows
      THEN [RowError(r) EXCEPT !.stepped = TRUE]
      ELSE r

(* The handler on the query in flight, the step for row failAt failing.    *)
execute_dataview_query_stepping(failAt) ==
  /\ dv.pending.some
  /\ failAt \in DOMAIN build_and_execute(db, dv.pending.v).result.rows
  /\ dv' = [query |-> dv.pending, pending |-> None]
           @@ Timed(build_and_execute_stepping(db, dv.pending.v, failAt))
  /\ UNCHANGED <<disk, now, db, faults, vault, base, last, graph, ctx, conn, scan, app>>

RowQueries == {q \in Queries : q.query_type = "TABLE"}

MaxRows == 3

NextRows ==
  \/ \E query \in RowQueries : invoke_dataview_query(query)
  \/ execute_dataview_query
  \/ \E failAt \in 1..MaxRows : execute_dataview_query_stepping(failAt)

SpecRows == InitDv /\ [][NextRows]_vars

(* C25: when one row fails during the iteration of the result, that row is *)
(* omitted, every other row is returned, and error is unset.               *)
C25_FailedRowOmitted ==
  (dv.query.some /\ dv.stepped /\ dv.err = "Row error") =>
    /\ ~dv.result.error.some
    /\ \E failAt \in DOMAIN execute_query(db, dv.query.v).result.rows :
         dv.result.rows = RowSkipped(execute_query(db, dv.query.v), failAt).result.rows

(* What the handler does: no row fails, or the result is the error alone.  *)
C25_FailedRowFailsQuery ==
  (dv.query.some /\ dv.stepped /\ dv.err = "Row error") =>
    /\ dv.result = DataviewResultError("Row error")
    /\ execute_query(db, dv.query.v).result.rows # <<>>

(***************************************************************************)
(* set_note_archived (commands/notes.rs:299-356) over every text of a few  *)
(* lines, with and without front matter.                                   *)
(***************************************************************************)
(* A front-matter line "key : value", with a space before the colon:       *)
(* serde_yaml_to_json trims the key (indexer.rs:393), while the line does  *)
(* not start with "key:".                                                  *)
YSpaced(key, s) ==
  [k |-> "yscalar", v |-> key, xs |-> <<[Tok("item", s) EXCEPT !.ns = " "]>>]

(* notes.rs:428: trimmed.starts_with("archived:")                          *)
StartsWithArchived(line) ==
  /\ line.k \in {"yscalar", "ykey", "ylist"}
  /\ line.v = "archived"
  /\ ~(line.xs # <<>> /\ line.xs[1].ns = " ")

archived_line(archived) ==
  YScalar("archived", IF archived THEN "true" ELSE "false")

(* notes.rs:409-446 *)
update_frontmatter_archived(lines, archived) ==
  IF Len(lines) > 0 /\ lines[1].k = "delim" /\ NextDelim(lines, 2) > 0
  THEN LET j    == NextDelim(lines, 2)
           yaml == SubSeq(lines, 2, j - 1)
           found_archived == \E i \in DOMAIN yaml : StartsWithArchived(yaml[i])
           new_yaml_lines ==
             [i \in DOMAIN yaml |->
                IF StartsWithArchived(yaml[i]) THEN archived_line(archived) ELSE yaml[i]]
       IN  <<Delim>>
           \o (IF found_archived THEN new_yaml_lines
               ELSE Append(new_yaml_lines, archived_line(archived)))
           \o SubSeq(lines, j, Len(lines))
  ELSE <<Delim, archived_line(archived), Delim, Body(<<>>)>> \o lines

(* notes.rs:299-356: the file is read, rewritten and indexed again; the    *)
(* index's archived column is extract_archived of the front matter of what *)
(* was written (indexer.rs:130-131, 160-176).                              *)
set_note_archived(archived) ==
  /\ ~scan.done
  /\ scan' = [scan EXCEPT
       !.done = TRUE,
       !.archived = archived,
       !.content = update_frontmatter_archived(scan.lines, archived),
       !.flag = extract_archived(extract_frontmatter(
                  update_frontmatter_archived(scan.lines, archived)))]
  /\ UNCHANGED <<disk, now, db, faults, vault, base, last, dv, graph, ctx, conn, app>>

MaxNoteLines == 4

NoteLines ==
  {Delim, YScalar("archived", "true"), YScalar("archived", "false"),
   YSpaced("archived", "true"), YSpaced("archived", "false"),
   YScalar("status", "done"), Body(<<Tok("word", "x")>>)}

NoteTexts == UNION {[1..n -> NoteLines] : n \in 0..MaxNoteLines}

InitArchive ==
  /\ disk = [p \in Paths |-> NoFile]
  /\ now = 0
  /\ db = EmptyDb
  /\ faults = 0
  /\ vault = Idle
  /\ base = NoBase
  /\ last = Last("open_vault_db", "open_vault", NoPath, TRUE, 0)
  /\ dv = NoAnswer
  /\ graph = NoGraph
  /\ ctx = NoCtx
  /\ conn = NoConn
  /\ app = NoApp
  /\ scan \in {[NoScan EXCEPT !.lines = t] : t \in NoteTexts}

NextArchive == \E archived \in BOOLEAN : set_note_archived(archived)

SpecArchive == InitArchive /\ [][NextArchive]_vars

(* C21: after set_note_archived(path, a) the archived flag of the note in  *)
(* the index is a, whatever the content was: without front matter, with    *)
(* well-formed front matter, with malformed front matter.                  *)
C21_FlagIsWhatWasSet ==
  (scan.done /\ scan.content # <<>>) => scan.flag = scan.archived

(* The same for contents none of whose lines spells the key with a space   *)
(* before the colon.                                                       *)
C21_FlagIsWhatWasSetUnspaced ==
  (/\ scan.done /\ scan.content # <<>>
   /\ \A i \in DOMAIN scan.lines :
        ~(scan.lines[i].xs # <<>> /\ scan.lines[i].xs[1].ns = " "))
    => scan.flag = scan.archived

(***************************************************************************)
(* Commands on one path running at once.  The commands are async: between  *)
(* the file operations of one and its closure on the connection another    *)
(* command may run.  A closure holds the mutex from its first statement to *)
(* its last (mod.rs:67-78).                                                *)
(***************************************************************************)
CallTexts == {2, 3}

Moved(c, call) == app' = [app EXCEPT !.calls[c] = call]
Free(c) == app.calls[c].pc \in {"idle", "done"}
Stands(c, op, pc) == app.calls[c].op = op /\ app.calls[c].pc = pc

(* notes.rs:139-155: the command is invoked and has checked the path.      *)
write_note_begin(c, path, content, create_if_missing) ==
  /\ Free(c)
  /\ Exists(disk, path) \/ create_if_missing
  /\ Moved(c, [NoCall EXCEPT !.op = "write_note", !.pc = "write",
                            !.path = path, !.text = content])
  /\ UNCHANGED <<disk, now, db, faults, vault, base, last, dv, graph, ctx, conn, scan>>

(* notes.rs:158-159: fs::write *)
write_note_write(c) ==
  /\ Stands(c, "write_note", "write")
  /\ disk' = [disk EXCEPT ![app.calls[c].path] =
                Written(app.calls[c].path, app.calls[c].text)]
  /\ Moved(c, [app.calls[c] EXCEPT !.pc = "read"])
  /\ UNCHANGED <<now, db, faults, vault, base, last, dv, graph, ctx, conn, scan>>

(* indexer.rs:121: index_single_note is called for a path.                 *)
index_single_note_begin(c, path) ==
  /\ Free(c)
  /\ Moved(c, [NoCall EXCEPT !.op = "index_single_note", !.pc = "read", !.path = path])
  /\ UNCHANGED <<disk, now, db, faults, vault, base, last, dv, graph, ctx, conn, scan>>

(* indexer.rs:126-129: the file and its metadata are read, before the      *)
(* connection is asked for; a file that is gone ends the call in an error. *)
index_single_note_read(c) ==
  /\ app.calls[c].op \in {"write_note", "index_single_note"}
  /\ app.calls[c].pc = "read"
  /\ Moved(c, IF Exists(disk, app.calls[c].path)
             THEN [app.calls[c] EXCEPT !.pc = "closure", !.read = disk[app.calls[c].path]]
             ELSE [app.calls[c] EXCEPT !.pc = "done"])
  /\ UNCHANGED <<disk, now, db, faults, vault, base, last, dv, graph, ctx, conn, scan>>

(* indexer.rs:160-276: the closure writes what was read.                   *)
index_single_note_closure(c) ==
  /\ app.calls[c].op \in {"write_note", "index_single_note"}
  /\ app.calls[c].pc = "closure"
  /\ db' = RunStmts(db, IndexStmts(app.calls[c].path, app.calls[c].read), 1, 0).db
  /\ Moved(c, [app.calls[c] EXCEPT !.pc = "done"])
  /\ UNCHANGED <<disk, now, faults, vault, base, last, dv, graph, ctx, conn, scan>>

(* notes.rs:201-208: the command is invoked and has found the file.        *)
delete_note_begin(c, path) ==
  /\ Free(c)
  /\ Exists(disk, path)
  /\ Moved(c, [NoCall EXCEPT !.op = "delete_note", !.pc = "remove", !.path = path])
  /\ UNCHANGED <<disk, now, db, faults, vault, base, last, dv, graph, ctx, conn, scan>>

(* notes.rs:210: fs::remove_file; a file that is gone is an error.         *)
delete_note_remove_file(c) ==
  /\ Stands(c, "delete_note", "remove")
  /\ disk' = [disk EXCEPT ![app.calls[c].path] = NoFile]
  /\ Moved(c, [app.calls[c] EXCEPT
                !.pc = IF Exists(disk, app.calls[c].path) THEN "purge" ELSE "done"])
  /\ UNCHANGED <<now, db, faults, vault, base, last, dv, graph, ctx, conn, scan>>

(* notes.rs:213, indexer.rs:279-287: remove_note_from_index                *)
delete_note_purge(c) ==
  /\ Stands(c, "delete_note", "purge")
  /\ db' = remove_note_from_index(db, app.calls[c].path, 0).db
  /\ Moved(c, [app.calls[c] EXCEPT !.pc = "done"])
  /\ UNCHANGED <<disk, now, faults, vault, base, last, dv, graph, ctx, conn, scan>>

NextCalls ==
  \E c \in Calls :
    \/ \E content \in CallTexts, create_if_missing \in BOOLEAN :
         write_note_begin(c, PathA, content, create_if_missing)
    \/ write_note_write(c)
    \/ index_single_note_begin(c, PathA)
    \/ index_single_note_read(c)
    \/ index_single_note_closure(c)
    \/ delete_note_begin(c, PathA)
    \/ delete_note_remove_file(c)
    \/ delete_note_purge(c)

SpecCalls == Init /\ [][NextCalls]_vars

AllComplete ==
  /\ \A c \in Calls : Free(c)
  /\ \E c \in Calls : app.calls[c].pc = "done"

(* C27: when calls of write_note, delete_note and index_single_note for    *)
(* one path have interleaved and all have completed, the index agrees with *)
(* the disk: the path has a notes row exactly if its file exists, and the  *)
(* row's content is the file's content.                                    *)
C27_IndexAgreesWithDisk ==
  AllComplete => Indexed(db, PathA) = disk[PathA].text

(* The same when one call ran at a time: the other was never made.         *)
C27_IndexAgreesWithDiskOneCaller ==
  (AllComplete /\ \E c \in Calls : app.calls[c].op = "none")
    => Indexed(db, PathA) = disk[PathA].text

(***************************************************************************)
(* Opening another vault while the open vault is being indexed.  Vault A   *)
(* is the vault of disk; vault B is a vault without note files, its index  *)
(* file kept in app.shelf while A is open.                                 *)
(***************************************************************************)
VaultBPaths == {}

(* vault.rs:88-113: open_vault(B).  open_vault_db puts B's connection and  *)
(* path in DatabaseState (mod.rs:28-48); nothing of the runs and calls in  *)
(* flight is told.  index_vault(B) then purges the rows whose files B does *)
(* not have and finds no file to index.                                    *)
open_vault ==
  /\ app.vault_path = "A"
  /\ db' = PurgeAll(app.shelf, {n.path : n \in app.shelf.notes} \ VaultBPaths)
  /\ app' = [app EXCEPT !.vault_path = "B", !.shelf = db]
  /\ last' = Last("open_vault_db", "open_vault", NoPath, TRUE, 0)
  /\ UNCHANGED <<disk, now, faults, vault, base, dv, graph, ctx, conn, scan>>

SwitchEdits == {PathA, PathB} \X {2}

NextSwitch ==
  \/ \E e \in SwitchEdits : app.vault_path = "A" /\ ExternalEdit(e[1], e[2])
  \/ app.vault_path = "A" /\ index_vault_begin
  \/ \E p \in Paths : cleanup_deleted_notes(p)
  \/ index_vault_walk
  \/ \E p \in Paths : index_vault_entry(p)
  \/ index_vault_end
  \/ app.vault_path = "A" /\ write_note_begin(1, PathA, 3, TRUE)
  \/ write_note_write(1)
  \/ index_single_note_read(1)
  \/ index_single_note_closure(1)
  \/ open_vault

SpecSwitch == Init /\ [][NextSwitch]_vars

(* C28: when vault B is opened while an index_vault or index_single_note   *)
(* for vault A is in flight, no note of A is written into B's index: once  *)
(* B is open every notes row of the active index is of a file of B.        *)
C28_NoNoteOfOtherVault ==
  app.vault_path = "B" => \A n \in db.notes : n.path \in VaultBPaths

(* What holds: at the step that opens B the active index has no row of A.  *)
C28_OpenedIndexIsEmptyAtFirst ==
  [][open_vault => db'.notes = {}]_vars

=============================================================================
